---- MODULE Spec2Model ----
(***************************************************************************)
(* A model of package types of jcdotter/gosimple (src/types/types.go):     *)
(* the classification of a value into an abstract Type, the scalar         *)
(* conversion matrix with its overflow check, and the structural mapping   *)
(* of a map into a record; of the types Class and ClassItem of an earlier  *)
(* state of that package (src/unnamed/part_000); and of the configuration  *)
(* of package log (src/types/array/array.go).                              *)
(*                                                                         *)
(* A Go value of static type any is a record [t |-> T, v |-> payload],     *)
(* where T is the name of its dynamic Go type ("nil" for the nil           *)
(* interface).  A Go call is an operator that yields a result              *)
(* [st |-> "ok" | "err" | "panic" | "fatal", v |-> value, e |-> error],    *)
(* or, where Go leaves the outcome to the implementation (a float          *)
(* converted to an integer type that cannot hold it) or to the map         *)
(* iteration order, the SET of results the call can produce.               *)
(***************************************************************************)
EXTENDS Integers, Sequences, FiniteSets

VARIABLES
    op,     \* the name of the last operation called ("none" at start)
    arg,    \* its arguments, a sequence of values
    res,    \* its result
    res2,   \* the result of invoking it once more on the same arguments
    pc,     \* "idle", or the name of the recursive function still running
    cur,    \* the argument of the innermost running call
    depth,  \* the number of nested calls of the running function
    class,  \* the Class the Class and ClassItem methods are called on
    log     \* the package variables of the logger, its configuration

vars == <<op, arg, res, res2, pc, cur, depth, class, log>>

(***************************************************************************)
(* Bounds of the model.                                                    *)
(***************************************************************************)
\* numbers are taken within Delta of 0 and of each power of two that is a
\* limit of an integer width
Delta == 2
\* the goroutine stack, counted in frames of the recursive function
MaxStack == 4
\* the largest number of entries of an input map
MaxEntries == 2

(***************************************************************************)
(* Numbers.  A number is sg * (Base(b) + d + f/10): Base(0) = 0 and        *)
(* Base(k) = 2^k for k > 0; d is a small integer offset, f a fraction in   *)
(* tenths.  Zero is written with sg = 1.  The order of two magnitudes is   *)
(* the lexicographic order of (b, d, f), the offsets being small against   *)
(* the gaps between the bases.                                             *)
(***************************************************************************)
Num(sg, b, d, f) == [b |-> b, d |-> d, f |-> f, sg |-> sg]

Zero == Num(1, 0, 0, 0)
One  == Num(1, 0, 1, 0)

IsZero(x) == x.b = 0 /\ x.d = 0 /\ x.f = 0

Canon(x) == IF IsZero(x) THEN Zero ELSE x

Neg(x) == Canon([x EXCEPT !.sg = 0 - x.sg])

MagLT(x, y) ==
    \/ x.b < y.b
    \/ x.b = y.b /\ x.d < y.d
    \/ x.b = y.b /\ x.d = y.d /\ x.f < y.f

NumLT(x, y) ==
    IF x.sg # y.sg THEN x.sg < y.sg
    ELSE IF x.sg = 1 THEN MagLT(x, y) ELSE MagLT(y, x)

NumLE(x, y) == x = y \/ NumLT(x, y)

IsWhole(x) == x.f = 0

\* the integer part, toward zero
Trunc(x) == Canon([x EXCEPT !.f = 0])

\* math.Round: to the nearest integer, halves away from zero
MathRound(x) ==
    IF x.f >= 5 THEN Canon([x EXCEPT !.d = x.d + 1, !.f = 0]) ELSE Trunc(x)

\* float64(i) of an integer i: exact below 2^53, and above it the nearest
\* float64, which for a number within Delta of 2^63 or 2^64 is that power
Float64(x) ==
    IF x.b >= 53 THEN Canon([x EXCEPT !.d = 0, !.f = 0]) ELSE x

\* float32(v) of a float64 v: the same with the 24 bit significand
Float32(x) ==
    IF x.b >= 24 THEN Canon([x EXCEPT !.d = 0, !.f = 0]) ELSE x

(***************************************************************************)
(* Go types.  The model is of a 64 bit build: int and uint are 64 bits     *)
(* wide (math.MaxInt = math.MaxInt64).                                     *)
(***************************************************************************)
IntTypes   == {"int", "int8", "int16", "int32", "int64"}
UintTypes  == {"uint", "uint8", "uint16", "uint32", "uint64"}
FloatTypes == {"float32", "float64"}
NumTypes   == IntTypes \cup UintTypes \cup FloatTypes
MapTypes   == {"map[any]any", "map[string]any"}
SliceTypes == {"[]any", "[][]any", "[]int"}
PtrTypes   == {"*int", "*interface {}"}
\* the record types of the model: st, sts and stkv are those of
\* types_test.go, their fields One, Two, Three and Four written A, B, T
\* and F; wide has one field of every scalar width; mixed has an open
\* field, a map field, a nested record, a timestamp, two fields that share
\* a tag value and a field that is not exported; signed and unsigned
\* have two integer fields of wide each; TestAddress is the record of
\* types_test.go whose fields carry tags of the namespace test only
StructNames ==
    {"st", "sts", "stkv", "wide", "mixed", "signed", "unsigned", "empty",
     "TestAddress"}

Bits(t) ==
    CASE t \in {"int8", "uint8"}   -> 8
      [] t \in {"int16", "uint16"} -> 16
      [] t \in {"int32", "uint32"} -> 32
      [] OTHER                     -> 64

\* the largest and the smallest value of an integer type
MaxOf(t) == Num(1, IF t \in IntTypes THEN Bits(t) - 1 ELSE Bits(t), 0 - 1, 0)
MinOf(t) == IF t \in IntTypes THEN Num(0 - 1, Bits(t) - 1, 0, 0) ELSE Zero

InRange(t, x) == NumLE(MinOf(t), x) /\ NumLE(x, MaxOf(t))

\* reflect.TypeOf(a).Kind()
KindOf(t) ==
    CASE t = "time.Time"   -> "struct"
      [] t = "uuid.UUID"   -> "array"
      [] t \in MapTypes    -> "map"
      [] t \in SliceTypes  -> "slice"
      [] t \in PtrTypes    -> "ptr"
      [] t \in StructNames -> "struct"
      [] OTHER             -> t

(***************************************************************************)
(* Values and results.                                                     *)
(***************************************************************************)
Val(t, v) == [t |-> t, v |-> v]

Nil == Val("nil", 0)

NoErr == [a |-> Nil, fn |-> "", k |-> ""]

Ok(v) == [e |-> NoErr, st |-> "ok", v |-> v]

\* a returned error: the function, what it expected, the value received;
\* v is the value returned beside the error
Err(v, fn, k, a) == [e |-> [a |-> a, fn |-> fn, k |-> k], st |-> "err", v |-> v]

\* a run-time panic that nothing recovers: the call returns nothing
Panic(why) == [e |-> [a |-> Nil, fn |-> "", k |-> why], st |-> "panic", v |-> Nil]

\* the goroutine stack exceeds its limit: the process is killed
Fatal == [e |-> [a |-> Nil, fn |-> "", k |-> "stack overflow"], st |-> "fatal", v |-> Nil]

NoRes == [e |-> NoErr, st |-> "none", v |-> Nil]

\* a value of the type Type, and a bool
Type(name) == Val("Type", name)
Bool(b)    == Val("bool", b)

(***************************************************************************)
(* The abstract Type of a value (types.go, 75-149 and 342-487).            *)
(***************************************************************************)
IsString(a) == a.t = "string"
IsBool(a)   == a.t = "bool"
IsInt(a)    == a.t \in IntTypes
IsFloat(a)  == a.t \in FloatTypes
IsUint(a)   == a.t \in UintTypes
IsNumber(a) == a.t \in NumTypes
IsBasic(a)  == a.t \in NumTypes \cup {"string", "bool"}
IsTime(a)   == a.t = "time.Time"
IsUUID(a)   == a.t = "uuid.UUID"

\* reflect.TypeOf(nil) is the nil Type, and Kind() on it dereferences nil:
\* each predicate below panics on the nil interface
NilKind(a) == a.t = "nil"

IsArray(a)  == KindOf(a.t) \in {"array", "slice"}
IsMap(a)    == KindOf(a.t) = "map"
IsStruct(a) == KindOf(a.t) = "struct"
IsPtr(a)    == KindOf(a.t) = "ptr"
IsFunc(a)   == KindOf(a.t) = "func"

\* TypeOf with the structural cases tried before Time and Identifier
TypeOfStructureFirst(a) ==
    IF IsString(a) THEN Ok(Type("string"))
    ELSE IF IsBool(a) THEN Ok(Type("bool"))
    ELSE IF IsInt(a) THEN Ok(Type("int"))
    ELSE IF IsFloat(a) THEN Ok(Type("float"))
    ELSE IF IsUint(a) THEN Ok(Type("uint"))
    ELSE IF NilKind(a) THEN Panic("nil pointer dereference")
    ELSE IF IsArray(a) THEN Ok(Type("array"))
    ELSE IF IsMap(a) THEN Ok(Type("map"))
    ELSE IF IsStruct(a) THEN Ok(Type("struct"))
    ELSE IF IsTime(a) THEN Ok(Type("time"))
    ELSE IF IsUUID(a) THEN Ok(Type("uuid"))
    ELSE IF IsPtr(a) THEN Ok(Type("pointer"))
    ELSE IF IsFunc(a) THEN Ok(Type("function"))
    ELSE Ok(Type("invalid"))

\* the cases of TypeOf in the order of the switch, each with its predicate
TypeOf(a) ==
    IF IsString(a) THEN Ok(Type("string"))
    ELSE IF IsBool(a) THEN Ok(Type("bool"))
    ELSE IF IsInt(a) THEN Ok(Type("int"))
    ELSE IF IsFloat(a) THEN Ok(Type("float"))
    ELSE IF IsUint(a) THEN Ok(Type("uint"))
    ELSE IF IsTime(a) THEN Ok(Type("time"))
    ELSE IF IsUUID(a) THEN Ok(Type("uuid"))
    ELSE IF NilKind(a) THEN Panic("nil pointer dereference")
    ELSE IF IsArray(a) THEN Ok(Type("array"))
    ELSE IF IsMap(a) THEN Ok(Type("map"))
    ELSE IF IsStruct(a) THEN Ok(Type("struct"))
    ELSE IF IsPtr(a) THEN Ok(Type("pointer"))
    ELSE IF IsFunc(a) THEN Ok(Type("function"))
    ELSE Ok(Type("invalid"))

(***************************************************************************)
(* Strings.  A string is a sequence of atoms: a character [c |-> "x"], or  *)
(* the decimal text of a non-negative number n, [c |-> "#", n |-> n]       *)
(* (the shortest text: digits and, when n has a fraction, a point), or     *)
(* the same text with grouping commas in it, [c |-> "#,", n |-> n].        *)
(***************************************************************************)
Ch(c)   == [c |-> c, n |-> Zero]
Lit(n)  == [c |-> "#", n |-> n]
GLit(n) == [c |-> "#,", n |-> n]

Chars(s) == [i \in 1..Len(s) |-> Ch(s[i])]

Str(s) == Val("string", s)

\* the letters of the model, in both cases
Lowers == <<"a", "b", "c", "d", "e", "f", "i", "k", "l", "m", "n", "r", "s", "t",
           "u", "w", "x">>
Uppers == <<"A", "B", "C", "D", "E", "F", "I", "K", "L", "M", "N", "R", "S", "T",
           "U", "W", "X">>

IsLowerCh(x) == \E i \in 1..Len(Lowers) : Lowers[i] = x.c
IsUpperCh(x) == \E i \in 1..Len(Uppers) : Uppers[i] = x.c

\* strings.ToUpper and strings.ToLower of one atom
UpperCh(x) ==
    IF IsLowerCh(x)
    THEN Ch(Uppers[CHOOSE i \in 1..Len(Lowers) : Lowers[i] = x.c])
    ELSE x
LowerCh(x) ==
    IF IsUpperCh(x)
    THEN Ch(Lowers[CHOOSE i \in 1..Len(Uppers) : Uppers[i] = x.c])
    ELSE x

ToUpper(s) == [i \in 1..Len(s) |-> UpperCh(s[i])]
ToLower(s) == [i \in 1..Len(s) |-> LowerCh(s[i])]

\* strings.ReplaceAll(s, ",", ""): the comma characters go, and the commas
\* inside a grouped number go
RECURSIVE RemoveCommas(_)
RemoveCommas(s) ==
    IF s = <<>> THEN <<>>
    ELSE LET x == Head(s)
             r == RemoveCommas(Tail(s))
         IN  IF x.c = "," THEN r
             ELSE IF x.c = "#," THEN <<Lit(x.n)>> \o r
             ELSE <<x>> \o r

\* strconv.ParseFloat(s, 64): an optional sign and the text of a number
\* (the exponent, hexadecimal, inf and nan forms are not among the inputs)
ParseFloat(s) ==
    IF Len(s) = 1 /\ s[1].c = "#" THEN Ok(Float64(s[1].n))
    ELSE IF Len(s) = 2 /\ s[1].c = "+" /\ s[2].c = "#" THEN Ok(Float64(s[2].n))
    ELSE IF Len(s) = 2 /\ s[1].c = "-" /\ s[2].c = "#" THEN Ok(Neg(Float64(s[2].n)))
    ELSE Err(Zero, "ParseFloat", "invalid syntax", Str(s))

\* fmt.Sprint of a number
SprintNum(x) ==
    IF x.sg < 0 THEN <<Ch("-"), Lit(Neg(x))>> ELSE <<Lit(x)>>

\* fmt.Sprint(a): a string as it is, a bool as true or false, a number by
\* its text, and a composite value by one atom that stands for its default
\* format
Sprint(a) ==
    CASE a.t = "string" -> a.v
      [] a.t = "bool"   -> IF a.v THEN Chars(<<"t", "r", "u", "e">>)
                           ELSE Chars(<<"f", "a", "l", "s", "e">>)
      [] a.t \in NumTypes -> SprintNum(a.v)
      [] OTHER -> <<Ch("%v")>>

(***************************************************************************)
(* Conversions to float64 (types.go, 906-1027).                            *)
(***************************************************************************)
StringToFloat(s) ==
    IF ~IsString(s) THEN Err(Zero, "StringToFloat", "string", s)
    ELSE LET str == RemoveCommas(s.v)
         IN  IF Len(str) = 0 THEN Panic("index out of range")
             ELSE LET neg == IF str[1].c = "(" /\ str[Len(str)].c = ")"
                             THEN <<Ch("-")>> \o SubSeq(str, 2, Len(str) - 1)
                             ELSE str
                      f == ParseFloat(neg)
                  IN  IF f.st # "ok"
                      THEN Err(Zero, "StringToFloat", "numeric string", s)
                      ELSE f

IntToFloat(i) ==
    IF i.t \in IntTypes THEN Ok(Float64(i.v))
    ELSE Err(Zero, "IntToFloat", "int", i)

FloatToFloat(f) ==
    IF f.t \in FloatTypes THEN Ok(f.v)
    ELSE Err(Zero, "FloatToFloat", "float", f)

UintToFloat(u) ==
    IF u.t \in UintTypes THEN Ok(Float64(u.v))
    ELSE Err(Zero, "UintToFloat", "uint", u)

BoolToFloat(b) ==
    IF b.t = "bool" THEN Ok(IF b.v THEN One ELSE Zero)
    ELSE Err(Zero, "BoolToFloat", "bool", b)

\* the payload of a time.Time is its Unix() second count
TimeToFloat(t) ==
    IF t.t = "time.Time" THEN Ok(Float64(t.v))
    ELSE Err(Zero, "TimeToFloat", "time.Time", t)

ToFloat(a) ==
    CASE a.t = "string"      -> StringToFloat(a)
      [] a.t \in IntTypes    -> IntToFloat(a)
      [] a.t \in FloatTypes  -> FloatToFloat(a)
      [] a.t \in UintTypes   -> UintToFloat(a)
      [] a.t = "bool"        -> BoolToFloat(a)
      [] a.t = "time.Time"   -> TimeToFloat(a)
      [] OTHER -> Err(Zero, "ToFloat", "string, numeric, bool, or time", a)

(***************************************************************************)
(* The overflow limits (types.go, 282-325).                                *)
(***************************************************************************)
\* math.MaxFloat32 and math.MaxFloat64: above every number of the model
MaxFloat32 == Num(1, 128, 0 - 1, 0)
MaxFloat64 == Num(1, 1024, 0 - 1, 0)

TypeOverflowLimit(t) ==
    CASE t \in IntTypes \cup UintTypes -> Ok(Float64(MaxOf(t)))
      [] t = "float32" -> Ok(MaxFloat32)
      [] t = "float64" -> Ok(MaxFloat64)
      [] OTHER -> Err(Zero, "TypeOverflowLimit", "not a numberic value type", Nil)

\* a panic inside ToFloat unwinds through ConversionOverflow: the callers
\* below call ToFloat on the same value first
ConversionOverflow(t, a) ==
    LET f    == ToFloat(a)
        tLim == TypeOverflowLimit(t)
    IN  IF f.st # "ok" \/ tLim.st # "ok" THEN TRUE
        ELSE NumLT(tLim.v, f.v)

(***************************************************************************)
(* Go's numeric conversions.                                               *)
(***************************************************************************)
\* the low Bits(t) bits of an integer i outside the range of t, read as a
\* t; no value where the numbers of the model cannot write them
Wraps(t, i) ==
    LET w == Bits(t)
        h == Bits(t) - 1
        small == IF i.sg * i.d >= 0 THEN Canon(Num(1, 0, i.sg * i.d, 0))
                 ELSE Num(0 - 1, 0, 0 - (i.sg * i.d), 0)
    IN  IF t \in IntTypes
        THEN IF i.b = h
             THEN {IF i.sg = 1 THEN Num(0 - 1, h, 0 - i.d, 0) ELSE Num(1, h, 0 - i.d, 0)}
             ELSE {small}
        ELSE IF i.b >= w
        THEN {IF small.sg = 1 THEN small ELSE Num(1, w, 0 - small.d, 0)}
        ELSE IF i.b = 0 THEN {Num(1, w, 0 - i.d, 0)}
        ELSE IF i.b = h THEN {Num(1, h, 0 - i.d, 0)}
        ELSE {}

\* T(x) of a float x, T an integer type: the fraction is discarded, and
\* "if the value cannot be represented by the type the result is
\* implementation-dependent": the instruction of the target saturates,
\* yields the smallest value or zero, or the bits of a wider result are cut
ImplDefined(t, i) == {MinOf(t), Zero, MaxOf(t)} \cup Wraps(t, i)

FloatToInteger(t, x) ==
    LET i == Trunc(x)
    IN  IF InRange(t, i) THEN {i} ELSE ImplDefined(t, i)

\* int64(u) of a uint64 u: the same 64 bits
WrapInt64(x) ==
    IF NumLE(x, MaxOf("int64")) THEN x
    ELSE IF x.b = 63 THEN Num(0 - 1, 63, 0 - x.d, 0)
    ELSE Canon(Num(0 - 1, 0, 0 - x.d, 0))

\* uint64(i) of an int64 i: the same 64 bits
WrapUint64(x) ==
    CASE x.sg = 1 -> x
      [] x.b = 0  -> Num(1, 64, 0 - x.d, 0)
      [] x.b = 63 -> Num(1, 63, 0 - x.d, 0)

(***************************************************************************)
(* Conversions to int (types.go, 766-894).  Each yields the set of its     *)
(* possible results.                                                       *)
(***************************************************************************)
StringToInt(s) ==
    LET f == StringToFloat(s)
    IN  IF f.st = "panic" THEN {f}
        ELSE IF f.st # "ok"
        THEN {Err(Zero, "StringToInt", "numeric like string", s)}
        ELSE IF ConversionOverflow("int", Val("float64", f.v))
        THEN {Err(Zero, "StringToInt", "overflow error", s)}
        ELSE {Ok(i) : i \in FloatToInteger("int", MathRound(f.v))}

IntToInt(i) ==
    IF i.t \in IntTypes THEN {Ok(i.v)}
    ELSE {Err(Zero, "IntToInt", "int", i)}

FloatToInt(f) ==
    IF ~IsFloat(f) THEN {Err(Zero, "FloatToInt", "float", f)}
    ELSE IF ConversionOverflow("int", f)
    THEN {Err(Zero, "FloatToInt", "overflow error", f)}
    ELSE {Ok(i) : i \in FloatToInteger("int", MathRound(f.v))}

UintToInt(u) ==
    IF ~IsUint(u) THEN {Err(Zero, "UintToInt", "uint", u)}
    ELSE IF ConversionOverflow("int", u)
    THEN {Err(Zero, "UintToInt", "overflow error", u)}
    ELSE {Ok(WrapInt64(u.v))}

BoolToInt(b) ==
    IF b.t = "bool" THEN {Ok(IF b.v THEN One ELSE Zero)}
    ELSE {Err(Zero, "BoolToInt", "bool", b)}

TimeToInt(t) ==
    IF t.t = "time.Time" THEN {Ok(t.v)}
    ELSE {Err(Zero, "TimeToInt", "time.Time", t)}

ToInt(a) ==
    CASE a.t = "string"      -> StringToInt(a)
      [] a.t \in IntTypes    -> IntToInt(a)
      [] a.t \in FloatTypes  -> FloatToInt(a)
      [] a.t \in UintTypes   -> UintToInt(a)
      [] a.t = "bool"        -> BoolToInt(a)
      [] a.t = "time.Time"   -> TimeToInt(a)
      [] OTHER -> {Err(Zero, "ToInt", "string, numeric, bool, or time", a)}

(***************************************************************************)
(* Conversions to uint (types.go, 1039-1166).                              *)
(***************************************************************************)
StringToUint(s) ==
    LET f == StringToFloat(s)
    IN  IF f.st = "panic" THEN {f}
        ELSE IF f.st # "ok" \/ NumLT(f.v, Zero)
        THEN {Err(Zero, "StringToUint", "unsigned numeric string", s)}
        ELSE IF ConversionOverflow("uint", Val("float64", f.v))
        THEN {Err(Zero, "StringToUint", "overflow error", s)}
        ELSE {Ok(u) : u \in FloatToInteger("uint", MathRound(f.v))}

uintIt(i) ==
    IF ConversionOverflow("uint", Val("int", i))
    THEN Err(Zero, "IntToUint", "overflow error", Val("int", i))
    ELSE IF NumLE(Zero, i) THEN Ok(i)
    ELSE Err(Zero, "ToUint", "unsigned number", Val("int", i))

IntToUint(i) ==
    IF i.t \in IntTypes THEN {uintIt(i.v)}
    ELSE {Err(Zero, "IntToUint", "int", i)}

FloatToUint(f) ==
    IF f.t \in FloatTypes
    THEN {uintIt(i) : i \in FloatToInteger("int", f.v)}
    ELSE {Err(Zero, "FloatToUint", "unsigned float", f)}

UintToUint(u) ==
    IF u.t \in UintTypes THEN {Ok(u.v)}
    ELSE {Err(Zero, "UintToUint", "uint", u)}

BoolToUint(b) ==
    IF b.t = "bool" THEN {Ok(IF b.v THEN One ELSE Zero)}
    ELSE {Err(Zero, "BoolToUint", "bool", b)}

TimeToUint(t) ==
    IF t.t = "time.Time" THEN {Ok(WrapUint64(t.v))}
    ELSE {Err(Zero, "TimeToUint", "time.Time", t)}

ToUint(a) ==
    CASE a.t = "string"      -> StringToUint(a)
      [] a.t \in IntTypes    -> IntToUint(a)
      [] a.t \in FloatTypes  -> FloatToUint(a)
      [] a.t \in UintTypes   -> UintToUint(a)
      [] a.t = "bool"        -> BoolToUint(a)
      [] a.t = "time.Time"   -> TimeToUint(a)
      [] OTHER -> {Err(Zero, "ToUint", "string, numeric, bool, or time", a)}

(***************************************************************************)
(* Conversions to bool (types.go, 1176-1288).                              *)
(***************************************************************************)
StringToBool(s) ==
    IF IsString(s)
    THEN LET ss == ToLower(s.v)
         IN  IF ss \in {Chars(<<"t">>), Chars(<<"t", "r", "u", "e">>), <<Lit(One)>>}
             THEN {Ok(Bool(TRUE))}
             ELSE IF ss \in {Chars(<<"f">>), Chars(<<"f", "a", "l", "s", "e">>), <<Lit(Zero)>>}
             THEN {Ok(Bool(FALSE))}
             ELSE {Err(Bool(FALSE), "StringToBool", "string of bool", s)}
    ELSE {Err(Bool(FALSE), "StringToBool", "string of bool", s)}

intToBool(i) ==
    IF i = One THEN Ok(Bool(TRUE))
    ELSE IF i = Zero THEN Ok(Bool(FALSE))
    ELSE Err(Bool(FALSE), "IntToBool", "0 or 1 int", Val("int", i))

IntToBool(i) ==
    IF i.t \in IntTypes THEN {intToBool(i.v)}
    ELSE {Err(Bool(FALSE), "IntToBool", "int", i)}

FloatToBool(f) ==
    IF f.t \in FloatTypes
    THEN {intToBool(i) : i \in FloatToInteger("int", f.v)}
    ELSE {Err(Bool(FALSE), "FloatToBool", "0 or 1 float", f)}

UintToBool(u) ==
    IF u.t \in UintTypes THEN {intToBool(WrapInt64(u.v))}
    ELSE {Err(Bool(FALSE), "UintToBool", "0 or 1 uint", u)}

BoolToBool(b) ==
    IF b.t = "bool" THEN {Ok(b)}
    ELSE {Err(Bool(FALSE), "BoolToBool", "bool", b)}

ToBool(a) ==
    CASE a.t = "string"      -> StringToBool(a)
      [] a.t \in IntTypes    -> IntToBool(a)
      [] a.t \in FloatTypes  -> FloatToBool(a)
      [] a.t \in UintTypes   -> UintToBool(a)
      [] a.t = "bool"        -> BoolToBool(a)
      [] OTHER -> {Err(Bool(FALSE), "ToBool", "string, numeric or bool", a)}

(***************************************************************************)
(* Conversion to string (types.go, 631-656).                               *)
(***************************************************************************)
IsValue(a) == IsBasic(a) \/ IsTime(a) \/ IsArray(a) \/ IsMap(a) \/ IsStruct(a)

\* &a of the parameter a, whose static type is any: a *interface{}
AddrOf(a) == Val("*interface {}", a)

\* a nested call of the running function on value a
Call(a) == [e |-> NoErr, st |-> "call", v |-> a]

StructToString(s) ==
    IF IsStruct(s) THEN Ok(Sprint(s))
    ELSE Err(<<>>, "StructToString", "struct", s)

\* one activation of ToString: its result, or the call it makes
ToStringLevel(a) ==
    IF NilKind(a) THEN Panic("nil pointer dereference")
    ELSE IF IsStruct(a) THEN StructToString(a)
    ELSE IF IsValue(a) THEN Ok(Sprint(a))
    ELSE IF IsPtr(a) THEN Call(AddrOf(a))
    ELSE Err(<<>>, "ToString",
             "string, int, float, uint, bool, time, slice, map or struct", a)

\* ToString run to its end: the calls nest until one returns or the stack
\* is exhausted
RECURSIVE ToStringFrom(_, _)
ToStringFrom(a, n) ==
    LET r == ToStringLevel(a)
    IN  IF r.st # "call" THEN r
        ELSE IF n >= MaxStack THEN Fatal
        ELSE ToStringFrom(r.v, n + 1)

ToString(a) == ToStringFrom(a, 1)

(***************************************************************************)
(* StrictlyTo (types.go, 209-280): the set of its possible results.  The   *)
(* returned map[reflect.Kind]any is a function from kind names.            *)
(***************************************************************************)
EmptyMap == [k \in {} |-> Nil]

KindMap(k, v) == [x \in {k} |-> v]

\* the key under which the case of kind k stores its value
StrictKey(k) ==
    CASE k = "uint"   -> "int"
      [] k = "uint32" -> "int32"
      [] k = "uint64" -> "int64"
      [] OTHER        -> k

\* T(v) of the float64 v, T the numeric type named k
StrictCast(k, v) ==
    CASE k = "float32" -> {Float32(v)}
      [] k = "float64" -> {v}
      [] OTHER         -> FloatToInteger(k, v)

StrictlyToErr(t, a) == Err(EmptyMap, "To", "could not convert", a)

StrictlyTo(t, a) ==
    LET tt == TypeOf(t)
    IN  IF tt.st = "panic" THEN {tt}
        ELSE CASE tt.v.v = "string" ->
                 LET r == ToString(a)
                 IN  IF r.st \in {"panic", "fatal"} THEN {r}
                     ELSE IF r.st = "err" THEN {StrictlyToErr(t, a)}
                     ELSE {Ok(KindMap("string", Str(r.v)))}
             [] tt.v.v = "bool" ->
                 {IF r.st = "err" THEN StrictlyToErr(t, a)
                  ELSE Ok(KindMap("bool", r.v)) : r \in ToBool(a)}
             [] tt.v.v \in {"int", "float", "uint"} ->
                 LET v == ToFloat(a)
                     k == t.t
                 IN  IF v.st = "panic" THEN {v}
                     ELSE IF v.st = "err" THEN {StrictlyToErr(t, a)}
                     ELSE IF ConversionOverflow(k, a) THEN {StrictlyToErr(t, a)}
                     ELSE {Ok(KindMap(StrictKey(k), Val(k, c))) :
                              c \in StrictCast(k, v.v)}
             [] OTHER -> {StrictlyToErr(t, a)}

(***************************************************************************)
(* The values the operations are called with.                              *)
(***************************************************************************)
\* the powers of two next to a limit of an integer width
Bases == {7, 8, 15, 16, 31, 32, 63, 64}

\* tenths: none, below a half, a half, above a half
Fracs == {0, 4, 5, 6}

Mags ==
    {Num(1, 0, d, f) : d \in 0..Delta, f \in Fracs}
    \cup {Num(1, b, d, f) : b \in Bases, d \in (0 - Delta)..Delta, f \in Fracs}

Nums == Mags \cup {Neg(x) : x \in Mags}

\* the numbers a value of numeric type t can hold
Holds(t, x) ==
    CASE t = "float64" -> x.b >= 53 => (x.d = 0 /\ x.f = 0)
      [] t = "float32" -> x.b >= 24 => (x.d = 0 /\ x.f = 0)
      [] OTHER         -> IsWhole(x) /\ InRange(t, x)

NumValsOf(t) == {Val(t, x) : x \in {y \in Nums : Holds(t, y)}}

NumVals == UNION {NumValsOf(t) : t \in NumTypes}

\* the numbers written in the input strings
LitNums == {x \in Mags : x.b \in {0, 8, 63, 64}}

StrVals ==
    {Str(<<>>), Str(Chars(<<"x">>)), Str(Chars(<<",">>)), Str(Chars(<<"(", ")">>)),
     Str(Chars(<<"T">>)), Str(Chars(<<"f", "a", "l", "s", "e">>))}
    \cup {Str(<<Lit(n)>>) : n \in LitNums}
    \cup {Str(<<GLit(n)>>) : n \in LitNums}
    \cup {Str(<<Ch("-"), Lit(n)>>) : n \in LitNums}
    \cup {Str(<<Ch("("), Lit(n), Ch(")")>>) : n \in LitNums}
    \cup {Str(<<Ch("("), GLit(n), Ch(")")>>) : n \in LitNums}
    \cup {Str(<<Ch("("), Ch("-"), Lit(n), Ch(")")>>) : n \in LitNums}

BoolVals == {Val("bool", TRUE), Val("bool", FALSE)}

\* time.Time{}: its Unix() is -62135596800, which lies between -2^36 and
\* -2^35; it is written with base 35, and is no input of a numeric conversion
ZeroTime == Val("time.Time", Num(0 - 1, 35, 0, 0))

\* timestamps within Delta seconds of the epoch, on both sides
TimeVals ==
    {Val("time.Time", Num(1, 0, d, 0)) : d \in 0..Delta}
    \cup {Val("time.Time", Num(0 - 1, 0, d, 0)) : d \in 1..Delta}

ScalarVals == NumVals \cup StrVals \cup BoolVals \cup TimeVals

\* values of the other kinds: an identifier, sequences, maps, a reference,
\* a function, a channel and the nil interface
OtherVals ==
    {Nil, ZeroTime, Val("uuid.UUID", "c6779922"),
     Val("[]any", <<>>), Val("[]any", <<Val("float64", One)>>),
     Val("map[any]any", EmptyMap),
     Val("map[any]any", [k \in {Str(Chars(<<"a">>))} |-> Val("float64", One)]),
     Val("*int", Val("int", One)), Val("*int", Nil),
     Val("func", "f"), Val("chan", "c")}

AllVals == ScalarVals \cup OtherVals

\* the values given to the numeric conversions
ConvVals == AllVals \ {ZeroTime}

\* the exemplars given to StrictlyTo: the zero value of every scalar type,
\* and three values that are no scalar
Exemplars ==
    {Val(t, Zero) : t \in NumTypes}
    \cup {Str(<<>>), Val("bool", FALSE), Nil, ZeroTime, Val("map[any]any", EmptyMap)}

(***************************************************************************)
(* Record types.  A field has a name, a Go type and its tags, a function   *)
(* from a tag namespace to the tag's value.  A record value is             *)
(* Val(type, <<field values>>).                                            *)
(***************************************************************************)
Field(name, ty, tag) == [name |-> Chars(name), tag |-> tag, ty |-> ty]

NoTag == [ns \in {} |-> <<>>]

Json(v) == [ns \in {"json"} |-> Chars(v)]

Test(v) == [ns \in {"test"} |-> Chars(v)]

StructFields(t) ==
    CASE t = "sts" ->
           <<Field(<<"A">>, "string", Json(<<"a">>)),
             Field(<<"B">>, "string", Json(<<"b">>))>>
      [] t = "st" ->
           <<Field(<<"A">>, "float64", Json(<<"a">>)),
             Field(<<"B">>, "float64", Json(<<"b">>)),
             Field(<<"T">>, "sts", Json(<<"t">>)),
             Field(<<"F">>, "[]any", Json(<<"f">>))>>
      [] t = "stkv" ->
           <<Field(<<"A">>, "float64", Json(<<"a">>)),
             Field(<<"B">>, "float64", Json(<<"b">>)),
             Field(<<"T">>, "float64", Json(<<"t">>)),
             Field(<<"F">>, "float64", Json(<<"f">>))>>
      [] t = "wide" ->
           <<Field(<<"S">>, "string", Json(<<"s">>)),
             Field(<<"B">>, "bool", Json(<<"b">>)),
             Field(<<"I">>, "int", Json(<<"i">>)),
             Field(<<"I", "8">>, "int8", Json(<<"i", "8">>)),
             Field(<<"I", "1", "6">>, "int16", Json(<<"i", "1", "6">>)),
             Field(<<"I", "3", "2">>, "int32", Json(<<"i", "3", "2">>)),
             Field(<<"I", "6", "4">>, "int64", Json(<<"i", "6", "4">>)),
             Field(<<"U">>, "uint", Json(<<"u">>)),
             Field(<<"U", "8">>, "uint8", Json(<<"u", "8">>)),
             Field(<<"U", "1", "6">>, "uint16", Json(<<"u", "1", "6">>)),
             Field(<<"U", "3", "2">>, "uint32", Json(<<"u", "3", "2">>)),
             Field(<<"U", "6", "4">>, "uint64", Json(<<"u", "6", "4">>)),
             Field(<<"F", "3", "2">>, "float32", Json(<<"f", "3", "2">>)),
             Field(<<"F", "6", "4">>, "float64", Json(<<"f", "6", "4">>))>>
      [] t = "signed" ->
           <<Field(<<"I">>, "int", Json(<<"i">>)),
             Field(<<"I", "8">>, "int8", Json(<<"i", "8">>))>>
      [] t = "unsigned" ->
           <<Field(<<"U">>, "uint", Json(<<"u">>)),
             Field(<<"U", "8">>, "uint8", Json(<<"u", "8">>))>>
      [] t = "TestAddress" ->
           <<Field(<<"S", "t", "r", "e", "e", "t">>, "string",
                   Test(<<"s", "t", "r", "e", "e", "t">>)),
             Field(<<"C", "i", "t", "y">>, "string", Test(<<"c", "i", "t", "y">>)),
             Field(<<"S", "t", "a", "t", "e">>, "string",
                   Test(<<"s", "t", "a", "t", "e">>)),
             Field(<<"Z", "i", "p">>, "string", Test(<<"z", "i", "p">>))>>
      [] t = "mixed" ->
           <<Field(<<"X">>, "any", Json(<<"x">>)),
             Field(<<"M">>, "map[any]any", Json(<<"m">>)),
             Field(<<"S">>, "sts", Json(<<"s">>)),
             Field(<<"W">>, "time.Time", Json(<<"w">>)),
             Field(<<"D">>, "int", Json(<<"d">>)),
             Field(<<"E">>, "int8", Json(<<"d">>)),
             Field(<<"u">>, "int", Json(<<"u">>))>>
      [] OTHER -> <<>>

\* the zero value of a Go type
RECURSIVE ZeroOf(_)
ZeroOf(ty) ==
    CASE ty = "string"     -> Str(<<>>)
      [] ty = "bool"       -> Val("bool", FALSE)
      [] ty \in NumTypes   -> Val(ty, Zero)
      [] ty = "any"        -> Nil
      [] ty \in MapTypes   -> Val(ty, EmptyMap)
      [] ty \in SliceTypes -> Val(ty, <<>>)
      [] ty = "time.Time"  -> ZeroTime
      [] ty \in StructNames ->
           Val(ty, [i \in 1..Len(StructFields(ty)) |-> ZeroOf(StructFields(ty)[i].ty)])

\* an exported field: its name starts with an upper case letter
IsExported(fd) == Len(fd.name) > 0 /\ IsUpperCh(fd.name[1])

(***************************************************************************)
(* The case formats of a string (types.go, 658-755).  Each yields Ok of    *)
(* the rewritten string, or the panic of a slice taken past the end.       *)
(***************************************************************************)
IsSpacing(x) == x.c \in {"_", " ", "\n", "\t"}

\* regexp.Split(s, -1) at the spacing characters: the parts between them
RECURSIVE SplitSpacing(_, _)
SplitSpacing(s, part) ==
    IF s = <<>> THEN <<part>>
    ELSE IF IsSpacing(Head(s)) THEN <<part>> \o SplitSpacing(Tail(s), <<>>)
    ELSE SplitSpacing(Tail(s), Append(part, Head(s)))

RECURSIVE JoinParts(_)
JoinParts(np) == IF np = <<>> THEN <<>> ELSE Head(np) \o JoinParts(Tail(np))

\* s[:1] + s[1:] with the first atom rewritten
UpperFirst(s) == <<UpperCh(s[1])>> \o Tail(s)
LowerFirst(s) == <<LowerCh(s[1])>> \o Tail(s)

toCamelCase(s) ==
    LET np == SplitSpacing(s, <<>>)
    IN  IF \E i \in 2..Len(np) : np[i] = <<>>
        THEN Panic("slice bounds out of range")
        ELSE Ok(JoinParts([i \in 1..Len(np) |->
                              IF i = 1 THEN np[i] ELSE UpperFirst(np[i])]))

\* ToPascalString that leaves the separators in the string
ToPascalStringFirstOnly(s) ==
    IF s = <<>> THEN Panic("slice bounds out of range") ELSE Ok(UpperFirst(s))

ToPascalString(s) ==
    LET c == toCamelCase(s)
    IN  IF c.st # "ok" THEN c
        ELSE IF c.v = <<>> THEN Panic("slice bounds out of range")
        ELSE Ok(UpperFirst(c.v))

ToCamelString(s) ==
    LET c == toCamelCase(s)
    IN  IF c.st # "ok" THEN c
        ELSE IF c.v = <<>> THEN Panic("slice bounds out of range")
        ELSE Ok(LowerFirst(c.v))

\* toSnakeCase(s, d, c): r is the text built so far, w whether a word is open
RECURSIVE toSnakeCase(_, _, _, _, _)
toSnakeCase(s, d, c, r, w) ==
    IF s = <<>> THEN (IF c THEN ToLower(r) ELSE r)
    ELSE LET x == Head(s)
         IN  IF IsSpacing(x)
             THEN toSnakeCase(Tail(s), d, c, IF w THEN Append(r, d) ELSE r, FALSE)
             ELSE toSnakeCase(Tail(s), d, c,
                      IF c /\ IsUpperCh(x) /\ w THEN r \o <<d, x>> ELSE Append(r, x),
                      TRUE)

ToSnakeString(s) == Ok(toSnakeCase(s, Ch("_"), TRUE, <<>>, FALSE))

\* StringFormat.Format: Phrase is routed to ToSnakeString
Format(f, s) ==
    CASE f = "Pascal" -> ToPascalString(s)
      [] f = "Camel"  -> ToCamelString(s)
      [] f = "Snake"  -> ToSnakeString(s)
      [] f = "Phrase" -> ToSnakeString(s)
      [] OTHER        -> Ok(s)

(***************************************************************************)
(* The field indexes (types.go, 2033-2093).  An index maps a tag value or  *)
(* a field name to the sequence of the positions, counted from 0 as in     *)
(* Go, of the fields that carry it.                                        *)
(***************************************************************************)
reflectStruct(s) ==
    IF KindOf(s.t) = "struct" THEN Ok(s)
    ELSE Err(Nil, "reflectStruct", "struct", s)

EmptyIndex == [k \in {} |-> <<>>]

NotFound == [index |-> EmptyIndex, ok |-> FALSE]

\* an index that puts the later field in front of the earlier ones
IndexAddInFront(index, k, i) ==
    IF k \in DOMAIN index
    THEN [index EXCEPT ![k] = <<i>> \o @]
    ELSE [x \in DOMAIN index \cup {k} |-> IF x = k THEN <<i>> ELSE index[x]]

\* index[k] = []int{i} when k is new, append(index[k], i) when it is not
IndexAdd(index, k, i) ==
    IF k \in DOMAIN index
    THEN [index EXCEPT ![k] = Append(@, i)]
    ELSE [x \in DOMAIN index \cup {k} |-> IF x = k THEN <<i>> ELSE index[x]]

\* a tag index that is found as soon as the record has a field
RECURSIVE TagIndexFromAnyField(_, _, _, _)
TagIndexFromAnyField(fs, t, i, acc) ==
    IF i > Len(fs) THEN acc
    ELSE IF t \in DOMAIN fs[i].tag
    THEN TagIndexFromAnyField(fs, t, i + 1,
             [index |-> IndexAdd(acc.index, fs[i].tag[t], i - 1), ok |-> TRUE])
    ELSE TagIndexFromAnyField(fs, t, i + 1, [acc EXCEPT !.ok = TRUE])

\* the loop of StructTagIndex from field i on (i counts from 1 here)
RECURSIVE TagIndexFrom(_, _, _, _)
TagIndexFrom(fs, t, i, acc) ==
    IF i > Len(fs) THEN acc
    ELSE IF t \in DOMAIN fs[i].tag
    THEN TagIndexFrom(fs, t, i + 1,
             [index |-> IndexAdd(acc.index, fs[i].tag[t], i - 1), ok |-> TRUE])
    ELSE TagIndexFrom(fs, t, i + 1, acc)

StructTagIndex(s, t) ==
    IF reflectStruct(s).st # "ok" \/ t = "" THEN NotFound
    ELSE TagIndexFrom(StructFields(s.t), t, 1, NotFound)

RECURSIVE NameIndexFrom(_, _, _)
NameIndexFrom(fs, i, acc) ==
    IF i > Len(fs) THEN acc
    ELSE NameIndexFrom(fs, i + 1,
             [index |-> IndexAdd(acc.index, fs[i].name, i - 1), ok |-> TRUE])

StructFieldNameIndex(s) ==
    IF reflectStruct(s).st # "ok" THEN NotFound
    ELSE NameIndexFrom(StructFields(s.t), 1, NotFound)

\* what structFieldByTag and its two callers return: the field, which is
\* nil, a position or a field descriptor, and ok
Found(field, ok) == Ok(Val("field", [field |-> field, ok |-> ok]))

\* structFieldByTag(s, t, v, f).  The result ok is never assigned: found
\* is a variable of the body, and the one of index[v] another in the
\* inner block.  field.(int) panics when v is not in the index.
structFieldByTag(s, t, v, f) ==
    LET x == StructTagIndex(s, t)
    IN  IF ~x.ok THEN Found(Nil, FALSE)
        ELSE LET field == IF v \in DOMAIN x.index
                          THEN Val("int", Num(1, 0, x.index[v][1], 0))
                          ELSE Nil
             IN  IF ~f THEN Found(field, FALSE)
                 ELSE IF field = Nil
                 THEN Panic("interface conversion")
                 ELSE Found(Val("reflect.StructField",
                                StructFields(s.t)[x.index[v][1] + 1]), FALSE)

\* the type assertion f.(T) of the callers panics on the nil interface
Asserted(r, ty) ==
    IF r.st = "ok" /\ r.v.v.field.t # ty THEN Panic("interface conversion") ELSE r

StructFieldByTag(s, t, v) ==
    Asserted(structFieldByTag(s, t, v, TRUE), "reflect.StructField")

StructFieldNumByTag(s, t, v) == Asserted(structFieldByTag(s, t, v, FALSE), "int")

(***************************************************************************)
(* MapToStruct (types.go, 1831-1936): the set of its possible results.     *)
(* The entries of a Go map are visited in an order that changes from one   *)
(* range loop to the next: every order of the keys is a possible run.      *)
(***************************************************************************)
Perms(S) ==
    {p \in [1..Cardinality(S) -> S] :
        \A i, j \in 1..Cardinality(S) : i # j => p[i] # p[j]}

\* reflect.Value.Kind() of a field
FieldKind(fd) == IF fd.ty = "any" THEN "interface" ELSE KindOf(fd.ty)

\* reflect.Value.Set(v) panics unless v is assignable to the field's type
Assignable(fd, v) == fd.ty = "any" \/ fd.ty = v.t

SetTo(sv, fi, v) == Ok([sv EXCEPT !.v[fi] = v])

\* fv.Set(reflect.ValueOf(v))
ReflectSet(sv, fi, fd, v) ==
    IF Assignable(fd, v) THEN SetTo(sv, fi, v)
    ELSE Panic("reflect.Set: value is not assignable")

RECURSIVE MapToStruct(_, _, _, _)
RECURSIVE Populate(_, _, _, _, _, _, _)
RECURSIVE SetField(_, _, _, _, _, _, _)

\* the body of the range loop once the field fi of the key is known: fo is
\* the field's present value, mv the value of the map entry
SetField(sv, fi, fd, fo, mv, f, t) ==
    IF fo = Nil THEN {SetTo(sv, fi, mv)}
    ELSE IF mv = Nil THEN {Ok(sv)}
    ELSE LET mt == TypeOf(mv).v.v
             ft == TypeOf(fo).v.v
         IN  IF ft = "map"
             THEN IF mt = "map" THEN {ReflectSet(sv, fi, fd, mv)}
                  ELSE {Err(Nil, "MapToStruct", "map", mv)}
             ELSE IF ft = "struct"
             THEN IF mt = "map"
                  THEN {IF fn.st = "ok" THEN ReflectSet(sv, fi, fd, fn.v) ELSE fn :
                           fn \in MapToStruct(mv, fo, f, t)}
                  ELSE IF mv.t = fd.ty THEN {ReflectSet(sv, fi, fd, mv)}
                  ELSE {Err(Nil, "MapToStruct", "map", mv)}
             ELSE IF ft \in {"string", "bool", "int", "float", "uint"}
             THEN {IF iv.st \in {"panic", "fatal"} THEN iv
                   ELSE IF iv.st = "err" THEN Err(Nil, "MapToStruct", ft, mv)
                   ELSE IF FieldKind(fd) \notin DOMAIN iv.v
                   THEN Panic("reflect: call of reflect.Value.Set on zero Value")
                   ELSE ReflectSet(sv, fi, fd, iv.v[FieldKind(fd)]) :
                       iv \in StrictlyTo(fo, mv)}
             ELSE IF ft = mt THEN {ReflectSet(sv, fi, fd, mv)}
             ELSE {Err(Nil, "MapToStruct", ft, mv)}

\* the range loop from the n-th key of the order on
Populate(order, n, m, sv, index, f, t) ==
    IF n > Len(order) THEN {Ok(sv)}
    ELSE LET key == order[n]
         IN  IF key.t # "string" THEN {Panic("interface conversion: not a string")}
             ELSE LET nf == Format(f, key.v)
                  IN  IF nf.st # "ok" THEN {nf}
                      ELSE IF nf.v \notin DOMAIN index
                      THEN {Err(Nil, "MapToStruct", "not a valid field in struct", Str(nf.v))}
                      ELSE LET fi == index[nf.v][1] + 1
                               fd == StructFields(sv.t)[fi]
                           IN  IF ~IsExported(fd)
                               THEN {Panic("reflect: value obtained from unexported field")}
                               ELSE UNION {IF r.st = "ok"
                                           THEN Populate(order, n + 1, m, r.v, index, f, t)
                                           ELSE {r} :
                                              r \in SetField(sv, fi, fd, sv.v[fi], m.v[key], f, t)}

MapToStruct(m, s, f, t) ==
    IF NilKind(m) THEN {Panic("nil pointer dereference")}
    ELSE IF ~IsMap(m) THEN {Err(Nil, "MapToStruct", "map", m)}
    ELSE IF reflectStruct(s).st # "ok" THEN {Err(Nil, "MapToStruct", "struct", s)}
    ELSE LET sv == ZeroOf(s.t)
             ix == IF t # "" THEN StructTagIndex(sv, t) ELSE StructFieldNameIndex(sv)
         IN  IF ~ix.ok
             THEN {Err(Nil, "MapToStruct",
                       IF t # "" THEN "valid tag string" ELSE "struct provided has no fields",
                       Str(<<>>))}
             ELSE UNION {Populate(p, 1, m, sv, ix.index, f, t) : p \in Perms(DOMAIN m.v)}

(***************************************************************************)
(* MapToReflectStruct (types.go, 1938-1985): the set of its possible       *)
(* results.  The synthesized record is a reflect.Value: its fields fs in   *)
(* the order of reflect.StructOf, and their values v.                      *)
(***************************************************************************)
ReflectValue(fs, v) == Val("reflect.Value", [fs |-> fs, v |-> v, valid |-> TRUE])

\* reflect.Value{}
ZeroReflectValue == Val("reflect.Value", [fs |-> <<>>, v |-> <<>>, valid |-> FALSE])

IsDigitCh(x) ==
    \/ x.c \in {"0", "1", "2", "3", "4", "5", "6", "7", "8", "9"}
    \/ x.c = "#" /\ IsWhole(x.n)

IsLetterCh(x) == IsLowerCh(x) \/ IsUpperCh(x) \/ x.c = "_"

\* reflect.isValidFieldName
isValidFieldName(n) ==
    /\ n # <<>>
    /\ IsLetterCh(n[1])
    /\ \A i \in 2..Len(n) : IsLetterCh(n[i]) \/ IsDigitCh(n[i])

\* reflect.StructOf(fs) from field i on: it panics on a field without a
\* name, with a name that is no identifier or is not exported, and on a
\* name it has seen
RECURSIVE StructOf(_, _)
StructOf(fs, i) ==
    IF i > Len(fs) THEN Ok(fs)
    ELSE IF fs[i].name = <<>> THEN Panic("reflect.StructOf: field has no name")
    ELSE IF ~isValidFieldName(fs[i].name)
    THEN Panic("reflect.StructOf: field has invalid name")
    ELSE IF ~IsExported(fs[i])
    THEN Panic("reflect.StructOf: field is unexported but missing PkgPath")
    ELSE IF \E j \in 1..(i - 1) : fs[j].name = fs[i].name
    THEN Panic("reflect.StructOf: duplicate field")
    ELSE StructOf(fs, i + 1)

\* vals[mk] = v
ValsPut(vals, mk, v) ==
    [x \in DOMAIN vals \cup {mk} |-> IF x = mk THEN v ELSE vals[x]]

RECURSIVE MapToReflectStruct(_, _)
RECURSIVE Synthesize(_, _, _, _, _, _)

\* the first range loop from the n-th key of the order on, then StructOf
\* and the second loop, whose order does not show in the result
Synthesize(order, n, m, fs, vals, t) ==
    IF n > Len(order)
    THEN LET s == StructOf(fs, 1)
         IN  IF s.st # "ok" THEN {s}
             ELSE {Ok(ReflectValue(fs, [i \in 1..Len(fs) |-> vals[fs[i].name]]))}
    ELSE LET key == order[n]
         IN  IF key.t # "string"
             THEN {Err(ZeroReflectValue, "MapToStruct", "map key to be a string",
                       Str(<<>>))}
             ELSE LET mk == ToPascalString(key.v)
                      v  == m.v[key]
                  IN  IF mk.st # "ok" THEN {mk}
                      ELSE IF NilKind(v) THEN {Panic("nil pointer dereference")}
                      ELSE UNION {IF nv.st = "panic" THEN {nv}
                                  ELSE Synthesize(order, n + 1, m,
                                           Append(fs, [name |-> mk.v,
                                                       tag |-> IF t # ""
                                                               THEN [ns \in {t} |-> key.v]
                                                               ELSE NoTag,
                                                       ty |-> nv.v.t]),
                                           ValsPut(vals, mk.v, nv.v), t) :
                                     nv \in IF IsMap(v)
                                            THEN {IF r.st = "panic" THEN r ELSE Ok(r.v) :
                                                     r \in MapToReflectStruct(v, t)}
                                            ELSE {Ok(v)}}

MapToReflectStruct(m, t) ==
    IF NilKind(m) THEN {Panic("nil pointer dereference")}
    ELSE IF ~IsMap(m) THEN {Err(ZeroReflectValue, "MapToStruct", "map", m)}
    ELSE UNION {Synthesize(p, 1, m, <<>>, EmptyIndex, t) : p \in Perms(DOMAIN m.v)}

(***************************************************************************)
(* StructToMap (types.go, 1577-1603).                                      *)
(***************************************************************************)
\* f.Tag.Get("json"), or the name of the field when that is empty
MapKeyOf(fd) ==
    IF "json" \in DOMAIN fd.tag /\ fd.tag["json"] # <<>>
    THEN Str(fd.tag["json"])
    ELSE Str(fd.name)

RECURSIVE StructToMap(_)
RECURSIVE StructToMapFrom(_, _, _)

\* the loop over the fields from field i on; Interface() panics on a field
\* that is not exported, and the error of the nested call is dropped
StructToMapFrom(sRef, i, m) ==
    IF i > Len(StructFields(sRef.t)) THEN Ok(Val("map[any]any", m))
    ELSE LET fd == StructFields(sRef.t)[i]
             n  == MapKeyOf(fd)
         IN  IF ~IsExported(fd)
             THEN Panic("reflect.Value.Interface: value obtained from unexported field")
             ELSE IF KindOf(fd.ty) = "struct"
             THEN LET r == StructToMap(sRef.v[i])
                  IN  IF r.st = "panic" THEN r
                      ELSE StructToMapFrom(sRef, i + 1, ValsPut(m, n, r.v))
             ELSE StructToMapFrom(sRef, i + 1, ValsPut(m, n, sRef.v[i]))

\* a time.Time is a struct whose fields are not exported
StructToMap(s) ==
    LET sRef == IF s.t = "*int" THEN s.v ELSE s
    IN  IF KindOf(sRef.t) # "struct"
        THEN Err(Val("map[any]any", EmptyMap), "StructToMap", "a struct", s)
        ELSE IF sRef.t = "time.Time"
        THEN Panic("reflect.Value.Interface: value obtained from unexported field")
        ELSE StructToMapFrom(sRef, 1, EmptyMap)

(***************************************************************************)
(* IsEmpty (types.go, 489-503), one activation at a time.                  *)
(***************************************************************************)
\* reflect.Value.Len() of a sequence, an identifier (16 bytes) or a map
LenOf(a) ==
    CASE a.t = "uuid.UUID"  -> 16
      [] a.t \in SliceTypes -> Len(a.v)
      [] OTHER              -> Cardinality(DOMAIN a.v)

\* reflect.Value.IsZero() of the remaining kinds: a scalar or a record is
\* compared with the zero value of its type, a function or a channel with nil
ReflectIsZero(a) ==
    IF a.t \in NumTypes \cup StructNames \cup {"string", "bool"}
    THEN a = ZeroOf(a.t)
    ELSE FALSE

\* one activation of IsEmpty: its result, or the call it makes
IsEmptyLevel(a) ==
    IF a = Nil THEN Ok(Bool(TRUE))
    ELSE IF IsTime(a) THEN Ok(Bool(a = ZeroTime))
    ELSE IF IsArray(a) \/ IsMap(a) THEN Ok(Bool(LenOf(a) = 0))
    ELSE IF IsPtr(a) THEN Call(AddrOf(a))
    ELSE Ok(Bool(ReflectIsZero(a)))

(***************************************************************************)
(* The state machine of the scalar operations.  A behaviour is one call    *)
(* of one operation on one input: the package keeps no state between       *)
(* calls.  ToString and IsEmpty, which call themselves, run one            *)
(* activation per step.                                                    *)
(***************************************************************************)
ToIntFamily   == {"StringToInt", "IntToInt", "FloatToInt", "UintToInt",
                  "BoolToInt", "TimeToInt", "ToInt"}
ToUintFamily  == {"StringToUint", "IntToUint", "FloatToUint", "UintToUint",
                  "BoolToUint", "TimeToUint", "ToUint"}
ToFloatFamily == {"StringToFloat", "IntToFloat", "FloatToFloat", "UintToFloat",
                  "BoolToFloat", "TimeToFloat", "ToFloat"}
ToBoolFamily  == {"StringToBool", "IntToBool", "FloatToBool", "UintToBool",
                  "BoolToBool", "ToBool"}

\* the results of calling the conversion named fn on a
Convert(fn, a) ==
    CASE fn = "StringToInt"   -> StringToInt(a)
      [] fn = "IntToInt"      -> IntToInt(a)
      [] fn = "FloatToInt"    -> FloatToInt(a)
      [] fn = "UintToInt"     -> UintToInt(a)
      [] fn = "BoolToInt"     -> BoolToInt(a)
      [] fn = "TimeToInt"     -> TimeToInt(a)
      [] fn = "ToInt"         -> ToInt(a)
      [] fn = "StringToUint"  -> StringToUint(a)
      [] fn = "IntToUint"     -> IntToUint(a)
      [] fn = "FloatToUint"   -> FloatToUint(a)
      [] fn = "UintToUint"    -> UintToUint(a)
      [] fn = "BoolToUint"    -> BoolToUint(a)
      [] fn = "TimeToUint"    -> TimeToUint(a)
      [] fn = "ToUint"        -> ToUint(a)
      [] fn = "StringToFloat" -> {StringToFloat(a)}
      [] fn = "IntToFloat"    -> {IntToFloat(a)}
      [] fn = "FloatToFloat"  -> {FloatToFloat(a)}
      [] fn = "UintToFloat"   -> {UintToFloat(a)}
      [] fn = "BoolToFloat"   -> {BoolToFloat(a)}
      [] fn = "TimeToFloat"   -> {TimeToFloat(a)}
      [] fn = "ToFloat"       -> {ToFloat(a)}
      [] fn = "StringToBool"  -> StringToBool(a)
      [] fn = "IntToBool"     -> IntToBool(a)
      [] fn = "FloatToBool"   -> FloatToBool(a)
      [] fn = "UintToBool"    -> UintToBool(a)
      [] fn = "BoolToBool"    -> BoolToBool(a)
      [] fn = "ToBool"        -> ToBool(a)

\* the zero value Class{}
ZeroClass == [Name |-> <<>>, List |-> <<>>, Items |-> <<>>, inst |-> FALSE]

\* the package variables of the logger as their declarations initialise them:
\* "" is the empty string, "nil" the nil writer, and the format lists the
\* elements LogLevel, LogDateTime, LogSession, LogSource, LogMessage
LogVars ==
    [session |-> "", host |-> "", service |-> "", writer |-> "nil",
     dir |-> "", file |-> "", delim |-> " \t", json |-> FALSE,
     timefmt |-> "2006-01-02 15:04:05.000", console |-> TRUE,
     active |-> FALSE,
     format |-> <<"LogLevel", "LogDateTime", "LogSession", "LogSource",
                  "LogMessage">>]

Init ==
    /\ op = "none"
    /\ arg = <<>>
    /\ res = NoRes
    /\ res2 = NoRes
    /\ pc = "idle"
    /\ cur = Nil
    /\ depth = 0
    /\ class = ZeroClass
    /\ log = LogVars

\* no operation has been called yet
Idle == op = "none"

\* a call that returns in one step
Returns(fn, args, r) ==
    /\ op' = fn
    /\ arg' = args
    /\ res' = r
    /\ UNCHANGED <<res2, pc, cur, depth, class, log>>

\* a call of a function that calls itself: its first activation is entered
Enters(fn, a) ==
    /\ op' = fn
    /\ arg' = <<a>>
    /\ pc' = fn
    /\ cur' = a
    /\ depth' = 1
    /\ UNCHANGED <<res, res2, class, log>>

\* the running activation returns r, or makes the nested call r.v, which
\* ends the process when the stack has no room for it
Steps(fn, r) ==
    /\ pc = fn
    /\ IF r.st # "call"
       THEN res' = r /\ pc' = "idle" /\ UNCHANGED <<cur, depth>>
       ELSE IF depth >= MaxStack
       THEN res' = Fatal /\ pc' = "idle" /\ UNCHANGED <<cur, depth>>
       ELSE cur' = r.v /\ depth' = depth + 1 /\ UNCHANGED <<res, pc>>
    /\ UNCHANGED <<op, arg, res2, class, log>>

TypeOfCall == Idle /\ \E a \in AllVals : Returns("TypeOf", <<a>>, TypeOf(a))

StrictlyToCall ==
    /\ Idle
    /\ \E t \in Exemplars, a \in ConvVals :
        \E r \in StrictlyTo(t, a) : Returns("StrictlyTo", <<t, a>>, r)

ToIntCall ==
    /\ Idle
    /\ \E fn \in ToIntFamily, a \in ConvVals :
        \E r \in Convert(fn, a) : Returns(fn, <<a>>, r)

ToUintCall ==
    /\ Idle
    /\ \E fn \in ToUintFamily, a \in ConvVals :
        \E r \in Convert(fn, a) : Returns(fn, <<a>>, r)

ToFloatCall ==
    /\ Idle
    /\ \E fn \in ToFloatFamily, a \in ConvVals :
        \E r \in Convert(fn, a) : Returns(fn, <<a>>, r)

ToBoolCall ==
    /\ Idle
    /\ \E fn \in ToBoolFamily, a \in ConvVals :
        \E r \in Convert(fn, a) : Returns(fn, <<a>>, r)

ToStringCall == Idle /\ \E a \in AllVals : Enters("ToString", a)

ToStringStep == pc = "ToString" /\ Steps("ToString", ToStringLevel(cur))

IsEmptyCall == Idle /\ \E a \in AllVals : Enters("IsEmpty", a)

IsEmptyStep == pc = "IsEmpty" /\ Steps("IsEmpty", IsEmptyLevel(cur))

Next ==
    \/ TypeOfCall
    \/ StrictlyToCall
    \/ ToIntCall
    \/ ToUintCall
    \/ ToFloatCall
    \/ ToBoolCall
    \/ ToStringCall
    \/ ToStringStep
    \/ IsEmptyCall
    \/ IsEmptyStep

Spec == Init /\ [][Next]_vars

(***************************************************************************)
(* Properties of the scalar operations, checked under Spec.                *)
(***************************************************************************)
\* the input of the call: its last argument
Input == arg[Len(arg)]

\* the number a numeric string denotes: the digits, negated by a leading
\* minus sign or by parentheses
Denoted(s) ==
    LET digits == SelectSeq(s, LAMBDA x : x.c \in {"#", "#,"})
    IN  IF s[1].c \in {"-", "("} THEN Neg(digits[1].n) ELSE digits[1].n

\* the number an input stands for
MathValue(a) == IF a.t = "string" THEN Denoted(a.v) ELSE a.v

\* the number a successful call returned
Returned ==
    IF op = "StrictlyTo" THEN res.v[CHOOSE k \in DOMAIN res.v : TRUE].v ELSE res.v

\* the conversions into a type of bounded width, and that type
IsBoundedConversion ==
    \/ op = "StrictlyTo" /\ arg[1].t \in (IntTypes \cup UintTypes) \ {"int", "uint"}
    \/ op \in {"FloatToInt", "StringToInt", "UintToInt",
               "FloatToUint", "StringToUint", "IntToUint", "TimeToUint"}

BoundedTarget ==
    CASE op = "StrictlyTo" -> arg[1].t
      [] op \in {"FloatToInt", "StringToInt", "UintToInt"} -> "int"
      [] OTHER -> "uint"

\* C1: a conversion into a type of bounded width either fails or returns a
\* value inside the range of the type that equals the input, rounded or cut
\* to an integer; an input outside the range is never returned wrapped or
\* clamped.
NoSilentTruncation ==
    (IsBoundedConversion /\ res.st = "ok") =>
        /\ InRange(BoundedTarget, Returned)
        /\ Returned \in {Trunc(MathValue(Input)), MathRound(MathValue(Input))}

\* the public conversions of the scalar matrix
ConversionOps ==
    ToIntFamily \cup ToUintFamily \cup ToFloatFamily \cup ToBoolFamily
    \cup {"StrictlyTo", "ToString"}

\* C2: every public conversion, on any input, the empty string and nil
\* included, returns a value or a failure; none panics.
NoPanic == op \in ConversionOps => res.st # "panic"

\* the string s stands between a pair of parentheses
Wrapped(s) == Len(s) >= 2 /\ s[1].c = "(" /\ s[Len(s)].c = ")"

\* what the string s, its grouping commas removed, is read as: the number
\* it spells, or the negative of the number that its content spells when
\* it is wrapped in parentheses; an error when there is no such number
ReadAs(s) ==
    LET str     == RemoveCommas(s)
        content == IF Wrapped(str) THEN SubSeq(str, 2, Len(str) - 1) ELSE str
        f       == ParseFloat(content)
    IN  IF f.st # "ok" THEN f
        ELSE IF Wrapped(str) THEN Ok(Neg(f.v))
        ELSE f

\* C20: StringToFloat removes the grouping commas, reads a value wrapped
\* in parentheses as the negative of its content and parses the rest as a
\* number; a string that does not parse after this yields a failure, never
\* zero with success.
AccountingNotationRead ==
    (op = "StringToFloat" /\ IsString(arg[1])) =>
        IF ReadAs(arg[1].v).st = "ok" THEN res = ReadAs(arg[1].v)
        ELSE res.st = "err"

\* a numeric conversion to bool was called with a number of the types it
\* converts
NumberToBoolCalled ==
    \/ op = "IntToBool" /\ arg[1].t \in IntTypes
    \/ op = "UintToBool" /\ arg[1].t \in UintTypes
    \/ op = "FloatToBool" /\ arg[1].t \in FloatTypes
    \/ op = "ToBool" /\ arg[1].t \in NumTypes

\* C21: IntToBool, UintToBool, FloatToBool and ToBool of a number succeed
\* exactly when its truncation toward zero is 0, giving false, or 1,
\* giving true, and fail for every other number of every width.
ZeroOrOneOnly ==
    NumberToBoolCalled =>
        IF Trunc(arg[1].v) = Zero THEN res = Ok(Bool(FALSE))
        ELSE IF Trunc(arg[1].v) = One THEN res = Ok(Bool(TRUE))
        ELSE res.st = "err"

\* C22: a successful StrictlyTo(t, a) returns a map of exactly one entry,
\* whose key is the concrete kind of the exemplar t and whose value is of
\* exactly that type: the value converted is the entry of the kind of t.
KeyedByExemplarKind ==
    (op = "StrictlyTo" /\ res.st = "ok") =>
        /\ DOMAIN res.v = {arg[1].t}
        /\ res.v[arg[1].t].t = arg[1].t

\* the number after a positive whole number
Succ(x) == [x EXCEPT !.d = @ + 1]

\* C5: for every integer width, StrictlyTo of the limit of the width
\* succeeds and yields the limit, and StrictlyTo of the limit plus one fails.
OverflowBoundary ==
    (op = "StrictlyTo" /\ arg[1].t \in IntTypes \cup UintTypes /\ IsNumber(arg[2])) =>
        /\ arg[2].v = MaxOf(arg[1].t) => (res.st = "ok" /\ Returned = MaxOf(arg[1].t))
        /\ arg[2].v = Succ(MaxOf(arg[1].t)) => res.st = "err"

\* the input of a narrowing is a number: a float, or a string that parses
IsNarrowing ==
    \/ op \in {"FloatToInt", "FloatToUint"} /\ IsFloat(arg[1])
    \/ op \in {"StringToInt", "StringToUint"} /\ IsString(arg[1])
       /\ StringToFloat(arg[1]).st = "ok"

\* the float64 a narrowing starts from
Narrowed == IF IsFloat(arg[1]) THEN arg[1].v ELSE StringToFloat(arg[1]).v

\* C6: FloatToInt, StringToInt, StringToUint and FloatToUint round the
\* input to the nearest integer, halves away from zero, and reject it only
\* if the rounded value overflows: a successful result is the rounded
\* input, and an input that rounds into the range is not rejected.
RoundsHalfAway ==
    IsNarrowing =>
        /\ res.st = "ok" => res.v = MathRound(Narrowed)
        /\ InRange(BoundedTarget, MathRound(Narrowed)) => res.st = "ok"

\* the abstract kinds, in the order of precedence, and Invalid
Precedence ==
    <<"string", "bool", "int", "float", "uint", "time", "uuid",
      "array", "map", "struct", "pointer", "function">>

TypeNames == {Precedence[i] : i \in 1..Len(Precedence)} \cup {"invalid"}

\* C7: TypeOf is total: for every value, nil included, it returns one
\* abstract kind, and never fails to return.
TypeOfTotal ==
    op = "TypeOf" => (res.st = "ok" /\ res.v \in {Type(n) : n \in TypeNames})

\* the structural predicate of an abstract kind
Satisfies(name, a) ==
    CASE name = "string"   -> a.t = "string"
      [] name = "bool"     -> a.t = "bool"
      [] name = "int"      -> a.t \in IntTypes
      [] name = "float"    -> a.t \in FloatTypes
      [] name = "uint"     -> a.t \in UintTypes
      [] name = "time"     -> a.t = "time.Time"
      [] name = "uuid"     -> a.t = "uuid.UUID"
      [] name = "array"    -> KindOf(a.t) \in {"array", "slice"}
      [] name = "map"      -> KindOf(a.t) = "map"
      [] name = "struct"   -> KindOf(a.t) = "struct"
      [] name = "pointer"  -> KindOf(a.t) = "ptr"
      [] name = "function" -> KindOf(a.t) = "func"

\* the first kind of the precedence whose predicate a satisfies
FirstKind(a) ==
    LET S == {i \in 1..Len(Precedence) : Satisfies(Precedence[i], a)}
    IN  IF S = {} THEN "invalid"
        ELSE Precedence[CHOOSE i \in S : \A j \in S : i <= j]

\* C8: TypeOf of a value that is not nil is the first kind, in the order
\* String, Bool, Int, Float, Uint, Time, Identifier, Sequence, Map, Record,
\* Reference, Callable, whose predicate the value satisfies: a timestamp is
\* Time and never Record, an identifier is Identifier and never Sequence.
TypeOfPrecedence ==
    (op = "TypeOf" /\ arg[1] # Nil) => res = Ok(Type(FirstKind(arg[1])))

\* TypeOf has classified a timestamp, which is structurally a record
TypeOfTimestamp ==
    /\ op = "TypeOf"
    /\ arg[1] = ZeroTime
    /\ Satisfies("struct", arg[1])
    /\ res = Ok(Type("time"))

\* C9: IsEmpty and ToString of a pointer finish, returning a result or a
\* failure, after following at most one level of indirection.
PointerCallReturns ==
    (op \in {"IsEmpty", "ToString"} /\ IsPtr(arg[1])) =>
        /\ depth <= 2
        /\ pc = "idle" => res.st \in {"ok", "err"}

(***************************************************************************)
(* The state machine of the record operations.  A behaviour is one call of *)
(* MapToStruct or of MapToReflectStruct and, after it, one more call with  *)
(* the same arguments, whose result is res2; or one call of StructTagIndex *)
(* or of StructFieldNameIndex; or one call of StructFieldByTag or of       *)
(* StructFieldNumByTag.                                                    *)
(***************************************************************************)
Key(s) == Str(Chars(s))

FieldNames(ty) == {Str(StructFields(ty)[i].name) : i \in 1..Len(StructFields(ty))}

TagValues(ty, t) ==
    {Str(StructFields(ty)[i].tag[t]) : i \in 1..Len(StructFields(ty))}

Nickname == Key(<<"n", "i", "c", "k", "n", "a", "m", "e">>)

\* the keys of the maps of one entry: the names of the fields, the tag
\* values, a key no field has, the empty key, keys with a separator, and a
\* key that is no string
OneKeys ==
    FieldNames("wide") \cup FieldNames("mixed") \cup TagValues("mixed", "json")
    \cup {Nickname, Key(<<>>), Key(<<"b", "_">>), Key(<<"a", "_", "b">>),
          Val("int", One)}

\* the numbers next to the limits of the integer widths
LimitVals ==
    {v \in NumVals : /\ v.t \in {"float64", "int64", "uint64"}
                     /\ v.v.sg = 1 /\ v.v.f = 0 /\ v.v.d \in {0 - 1, 0}}

\* maps given as the value of an entry: of one string key, of two, and of
\* a key that is no string
NestedVals ==
    {Val("map[any]any", [k \in {Key(<<"a">>)} |-> Key(<<"x">>)]),
     Val("map[any]any", [k \in {Key(<<"a">>), Key(<<"b">>)} |->
                            IF k = Key(<<"a">>) THEN Key(<<"x">>) ELSE Val("float64", One)]),
     Val("map[any]any", [k \in {Val("int", One)} |-> Key(<<"x">>)])}

OneVals ==
    LimitVals
    \cup {Val("float64", Num(1, 0, 1, 6)), Val("int", Neg(One)), Val("uint", One),
          Key(<<"x">>), Str(<<Lit(One)>>), Val("bool", TRUE), Nil,
          Val("map[any]any", EmptyMap), Val("map[string]any", EmptyMap),
          Val("map[any]any", [k \in {Key(<<"A">>)} |-> Key(<<"x">>)]),
          ZeroOf("sts"), ZeroTime}
    \cup NestedVals

OneMaps == {Val("map[any]any", [k \in {key} |-> v]) : key \in OneKeys, v \in OneVals}

SmallKeys == {Key(<<"B">>), Key(<<"b">>), Key(<<"U">>), Nickname, Val("int", One)}

SmallVals == {Val("float64", One), Key(<<"x">>), Val("map[any]any", EmptyMap)}

\* the maps of two to MaxEntries entries
MultiMaps ==
    UNION {{Val("map[any]any", f) : f \in [Ks -> SmallVals]} :
              Ks \in {S \in SUBSET SmallKeys : Cardinality(S) \in 2..MaxEntries}}

\* the maps of two keys that the Pascal transform makes one
CollidingMaps ==
    {Val("map[any]any", f) : f \in [{Key(<<"x">>), Key(<<"X">>)} -> SmallVals]}

MapInputs ==
    OneMaps \cup MultiMaps \cup CollidingMaps
    \cup {Nil, Str(<<>>), Val("map[any]any", EmptyMap)}

Destinations ==
    {ZeroOf("wide"), ZeroOf("mixed"), ZeroOf("sts"), ZeroOf("empty"), Nil, Str(<<>>)}

Formats == {"None", "Pascal", "Snake"}

Tags == {"", "json"}

\* a format and a tag as they stand among the arguments of a call
FormatArg(f) == Val("StringFormat", f)
TagArg(t)    == Val("tag", t)

MapToStructCall ==
    /\ Idle
    /\ \E m \in MapInputs, s \in Destinations, f \in Formats, t \in Tags :
           \E r \in MapToStruct(m, s, f, t) :
               Returns("MapToStruct", <<m, s, FormatArg(f), TagArg(t)>>, r)

MapToReflectStructCall ==
    /\ Idle
    /\ \E m \in MapInputs, t \in Tags :
           \E r \in MapToReflectStruct(m, t) :
               Returns("MapToReflectStruct", <<m, TagArg(t)>>, r)

\* the results of calling once more the operation that has returned
Recall ==
    IF op = "MapToStruct" THEN MapToStruct(arg[1], arg[2], arg[3].v, arg[4].v)
    ELSE MapToReflectStruct(arg[1], arg[2].v)

Again ==
    /\ op \in {"MapToStruct", "MapToReflectStruct"}
    /\ res2.st = "none"
    /\ \E r \in Recall : res2' = r
    /\ UNCHANGED <<op, arg, res, pc, cur, depth, class, log>>

\* the values the indexes are asked for: a record of every type, and
\* values that are no record
IndexInputs == {ZeroOf(ty) : ty \in StructNames} \cup {Nil, Str(<<>>)}

\* the tag namespaces the tag index is asked for
IndexTags == Tags \cup {"test"}

\* an index and its ok flag as they stand in the result of a call
IndexResult(x) == Ok(Val("index", x))

StructTagIndexCall ==
    /\ Idle
    /\ \E s \in IndexInputs, t \in IndexTags :
           Returns("StructTagIndex", <<s, TagArg(t)>>,
                   IndexResult(StructTagIndex(s, t)))

StructFieldNameIndexCall ==
    /\ Idle
    /\ \E s \in IndexInputs :
           Returns("StructFieldNameIndex", <<s>>,
                   IndexResult(StructFieldNameIndex(s)))

\* the tag values the fields are looked up by: carried by one field, by
\* two fields of mixed, by none, and the empty one
LookupValues ==
    {Chars(<<"a">>), Chars(<<"d">>), Chars(<<"c", "i", "t", "y">>), Chars(<<"z">>), <<>>}

StructFieldByTagCall ==
    /\ Idle
    /\ \E s \in IndexInputs, t \in IndexTags, v \in LookupValues :
           Returns("StructFieldByTag", <<s, TagArg(t), Str(v)>>,
                   StructFieldByTag(s, t, v))

StructFieldNumByTagCall ==
    /\ Idle
    /\ \E s \in IndexInputs, t \in IndexTags, v \in LookupValues :
           Returns("StructFieldNumByTag", <<s, TagArg(t), Str(v)>>,
                   StructFieldNumByTag(s, t, v))

NextMap ==
    \/ MapToStructCall
    \/ MapToReflectStructCall
    \/ Again
    \/ StructTagIndexCall
    \/ StructFieldNameIndexCall
    \/ StructFieldByTagCall
    \/ StructFieldNumByTagCall

SpecMap == Init /\ [][NextMap]_vars

(***************************************************************************)
(* Properties of the record operations, checked under SpecMap.             *)
(***************************************************************************)
\* MapToStruct was called with a map and a record whose index exists
TypedDestination ==
    /\ op = "MapToStruct"
    /\ IsMap(arg[1])
    /\ reflectStruct(arg[2]).st = "ok"
    /\ IF arg[4].v # "" THEN StructTagIndex(arg[2], arg[4].v).ok
       ELSE StructFieldNameIndex(arg[2]).ok

\* the index MapToStruct looks the keys up in
DestinationIndex ==
    IF arg[4].v # "" THEN StructTagIndex(arg[2], arg[4].v).index
    ELSE StructFieldNameIndex(arg[2]).index

\* the key k, a string, stands for no field after the casing transform
Unmatched(k) ==
    /\ k.t = "string"
    /\ Format(arg[3].v, k.v).st = "ok"
    /\ Format(arg[3].v, k.v).v \notin DOMAIN DestinationIndex

\* C3: MapToStruct on a map with a key that matches no field of the
\* destination fails and returns no record, whatever the other entries are
\* and in whatever order the entries are visited.
UnmatchedKeyFails ==
    (TypedDestination /\ \E k \in DOMAIN arg[1].v : Unmatched(k)) => res.st = "err"

\* the only key of a map of one entry, its value, and the field it names
OnlyKey == CHOOSE k \in DOMAIN arg[1].v : TRUE

OnlyValue == arg[1].v[OnlyKey]

OnlyField ==
    StructFields(arg[2].t)[DestinationIndex[Format(arg[3].v, OnlyKey.v).v][1] + 1]

\* MapToStruct was called with one entry, which is not nil and whose key
\* names an exported field of scalar type
MatchedScalar ==
    /\ TypedDestination
    /\ Cardinality(DOMAIN arg[1].v) = 1
    /\ OnlyKey.t = "string"
    /\ Format(arg[3].v, OnlyKey.v).st = "ok"
    /\ Format(arg[3].v, OnlyKey.v).v \in DOMAIN DestinationIndex
    /\ IsExported(OnlyField)
    /\ OnlyField.ty \in NumTypes \cup {"string", "bool"}
    /\ OnlyValue # Nil

\* the value mv is a value of the type ty as it stands
Fits(ty, mv) ==
    CASE ty \in IntTypes \cup UintTypes ->
             IsNumber(mv) /\ IsWhole(mv.v) /\ InRange(ty, mv.v)
      [] ty \in FloatTypes -> IsNumber(mv) /\ Holds(ty, mv.v)
      [] OTHER -> mv.t = ty

\* the field the record has after the call, for the only key
FieldSet ==
    res.v.v[DestinationIndex[Format(arg[3].v, OnlyKey.v).v][1] + 1]

\* C4: MapToStruct, for a matched field of scalar type of any width: a map
\* value that fits the type is stored in the field as a value of exactly
\* that type, and a map value whose conversion fails makes the whole call
\* fail.
ScalarFieldSet ==
    MatchedScalar =>
        /\ Fits(OnlyField.ty, OnlyValue) =>
               (res.st = "ok" /\ FieldSet = Val(OnlyField.ty, OnlyValue.v))
        /\ (\A r \in StrictlyTo(ZeroOf(OnlyField.ty), OnlyValue) : r.st = "err") =>
               res.st = "err"

\* C10: two calls of MapToStruct, or of MapToReflectStruct, with the same
\* arguments have the same outcome: both succeed with the same record, its
\* fields in the same order, or both fail in the same way.
Deterministic == res2.st # "none" => res2 = res

\* MapToReflectStruct has returned a record
Synthesized == op = "MapToReflectStruct" /\ res.st = "ok"

\* the fields of a synthesized record r and their values
FieldsOf(r) == r.v.fs

ValuesOf(r) == r.v.v

\* the record r is the synthesis of the map m: it is valid, it has one
\* field per key of m, and the field of a key holds the value of the key,
\* or a record when that value is a map
Holding(r, m) ==
    /\ r.t = "reflect.Value"
    /\ r.v.valid
    /\ Len(FieldsOf(r)) = Cardinality(DOMAIN m.v)
    /\ \A k \in DOMAIN m.v :
           /\ k.t = "string"
           /\ \E i \in 1..Len(FieldsOf(r)) :
                  /\ FieldsOf(r)[i].name = ToPascalString(k.v).v
                  /\ (IsMap(m.v[k]) \/ ValuesOf(r)[i] = m.v[k])

\* C11: in the record MapToReflectStruct returns, the field of every entry
\* whose value is a map holds a synthesized record, with one field per key
\* of the nested map, each holding the nested value.
NestedSynthesis ==
    Synthesized =>
        \A k \in DOMAIN arg[1].v :
            IsMap(arg[1].v[k]) =>
                \E i \in 1..Len(FieldsOf(res.v)) :
                    /\ FieldsOf(res.v)[i].name = ToPascalString(k.v).v
                    /\ Holding(ValuesOf(res.v)[i], arg[1].v[k])

\* the tag namespace the keys are written to
KeyNamespace == IF arg[2].v = "" THEN "json" ELSE arg[2].v

\* C23: every field of the record MapToReflectStruct returns has a tag
\* that carries the map key as it was received, under the namespace t
\* when t is given and under json when t is empty.
KeyTagged ==
    Synthesized =>
        \A k \in DOMAIN arg[1].v :
            \E i \in 1..Len(FieldsOf(res.v)) :
                /\ FieldsOf(res.v)[i].name = ToPascalString(k.v).v
                /\ KeyNamespace \in DOMAIN FieldsOf(res.v)[i].tag
                /\ FieldsOf(res.v)[i].tag[KeyNamespace] = k.v

\* the Pascal case of a key: the separators are dropped, and the first
\* character and every character after a separator are in upper case
RECURSIVE PascalCase(_, _)
PascalCase(s, up) ==
    IF s = <<>> THEN <<>>
    ELSE IF IsSpacing(Head(s)) THEN PascalCase(Tail(s), TRUE)
    ELSE <<IF up THEN UpperCh(Head(s)) ELSE Head(s)>> \o PascalCase(Tail(s), FALSE)

\* the names of the fields of the returned record
SynthesizedNames == {FieldsOf(res.v)[i].name : i \in 1..Len(FieldsOf(res.v))}

\* C12 as claimed: the name of the field of a key is the key with its first
\* character in upper case and every other character as received.
FirstUpperFieldNames ==
    Synthesized => SynthesizedNames = {UpperFirst(k.v) : k \in DOMAIN arg[1].v}

\* C12 as amended: the name of the field of a key is the key in Pascal
\* case, the separators dropped and each part capitalised, whatever the tag
\* given to the call.
PascalFieldNames ==
    Synthesized => SynthesizedNames = {PascalCase(k.v, TRUE) : k \in DOMAIN arg[1].v}

\* a record was synthesized from a key with a separator in it
SeparatorKeySynthesized ==
    /\ Synthesized
    /\ Key(<<"a", "_", "b">>) \in DOMAIN arg[1].v
    /\ SynthesizedNames = {Chars(<<"A", "B">>)}

\* the position, from 1, of the field the key k stands for
FieldOfKey(k) == DestinationIndex[Format(arg[3].v, k.v).v][1] + 1

\* the key k stands for an exported field declared any
OpenKey(k) ==
    /\ k.t = "string"
    /\ Format(arg[3].v, k.v).st = "ok"
    /\ Format(arg[3].v, k.v).v \in DOMAIN DestinationIndex
    /\ IsExported(StructFields(arg[2].t)[FieldOfKey(k)])
    /\ StructFields(arg[2].t)[FieldOfKey(k)].ty = "any"

\* MapToStruct was called with entries that all stand for fields declared any
OnlyOpenKeys ==
    /\ TypedDestination
    /\ DOMAIN arg[1].v # {}
    /\ \A k \in DOMAIN arg[1].v : OpenKey(k)

\* C14: MapToStruct, when the field of a key is declared any, stores the
\* value of the entry in the field as it is, whatever its kind, and does
\* not fail.
OpenFieldStored ==
    OnlyOpenKeys =>
        /\ res.st = "ok"
        /\ \A k \in DOMAIN arg[1].v :
               \E k2 \in DOMAIN arg[1].v :
                   /\ FieldOfKey(k2) = FieldOfKey(k)
                   /\ res.v.v[FieldOfKey(k)] = arg[1].v[k2]

(***************************************************************************)
(* The field indexes and the field MapToStruct writes.                     *)
(***************************************************************************)
IndexCalled == op \in {"StructTagIndex", "StructFieldNameIndex"}

\* the fields of the record an index was asked for
IndexedFields == StructFields(arg[1].t)

\* field i, counted from 1, carries a key in the call that has returned:
\* a tag of the namespace asked for, or its name
HasKey(i) ==
    op = "StructTagIndex" => arg[2].v \in DOMAIN IndexedFields[i].tag

KeyOfField(i) ==
    IF op = "StructTagIndex" THEN IndexedFields[i].tag[arg[2].v]
    ELSE IndexedFields[i].name

\* the positions, counted from 0, of the fields that carry the key k
Carriers(k) ==
    {i - 1 : i \in {j \in 1..Len(IndexedFields) : HasKey(j) /\ KeyOfField(j) = k}}

Ascending(e) == \A i, j \in 1..Len(e) : i < j => e[i] < e[j]

\* the index that has been returned has an entry for every key a field
\* carries, and the entry lists the carriers in ascending order
IndexEntriesExact ==
    (IndexCalled /\ reflectStruct(arg[1]).st = "ok") =>
        LET index == res.v.v.index IN
        /\ \A i \in 1..Len(IndexedFields) : HasKey(i) => KeyOfField(i) \in DOMAIN index
        /\ \A k \in DOMAIN index :
               /\ Ascending(index[k])
               /\ {index[k][n] : n \in 1..Len(index[k])} = Carriers(k)
               /\ Carriers(k) # {}

\* the string keys of the map that stand for a field of the destination
MatchedKeys ==
    {k \in DOMAIN arg[1].v :
        /\ k.t = "string"
        /\ Format(arg[3].v, k.v).st = "ok"
        /\ Format(arg[3].v, k.v).v \in DOMAIN DestinationIndex}

\* the fields, counted from 1, that stand first in the entry of a key
Targets == {FieldOfKey(k) : k \in MatchedKeys}

\* the value of the same type as a field that is no integer is stored as
\* it is
Verbatim(fd, mv) ==
    /\ mv.t = fd.ty
    /\ fd.ty \in {"string", "bool", "float32", "float64"}

\* a successful MapToStruct leaves every field that is not the first of a
\* key's entry as it was, and the first field of a key that alone stands
\* for it holds the value of that key
FirstFieldOnly ==
    (TypedDestination /\ res.st = "ok") =>
        /\ \A p \in 1..Len(StructFields(arg[2].t)) :
               p \notin Targets => res.v.v[p] = arg[2].v[p]
        /\ \A k \in MatchedKeys :
               (/\ \A k2 \in MatchedKeys : FieldOfKey(k2) = FieldOfKey(k) => k2 = k
                /\ Verbatim(StructFields(arg[2].t)[FieldOfKey(k)], arg[1].v[k]))
               => res.v.v[FieldOfKey(k)] = arg[1].v[k]

\* C15: for every tag value or field name the index entry lists, in
\* ascending declaration order and without repetition, exactly the
\* positions of the fields carrying it, and MapToStruct writes a matching
\* map value only to the first field of the entry, leaving the later
\* fields that carry the same key untouched.
FirstCarrierWritten == IndexEntriesExact /\ FirstFieldOnly

\* a value has been written to D, the first of the two fields tagged d,
\* and E, the second, is as it was
DuplicateLeftUntouched ==
    /\ TypedDestination
    /\ res.st = "ok"
    /\ arg[2].t = "mixed"
    /\ arg[4].v = "json"
    /\ Key(<<"d">>) \in DOMAIN arg[1].v
    /\ StructTagIndex(arg[2], "json").index[Chars(<<"d">>)] = <<4, 5>>
    /\ res.v.v[5] # arg[2].v[5]
    /\ res.v.v[6] = arg[2].v[6]

\* C16 as claimed: an index is reported not found only for a record of
\* zero fields or, for the tag index, for the empty namespace; the tag
\* index of a record with a field, for a namespace that is not empty, is
\* reported found.
NotFoundOnlyWhenEmpty ==
    IndexCalled =>
        /\ ~res.v.v.ok =>
               \/ Len(IndexedFields) = 0
               \/ op = "StructTagIndex" /\ arg[2].v = ""
        /\ (op = "StructTagIndex" /\ Len(IndexedFields) >= 1 /\ arg[2].v # "")
               => res.v.v.ok

\* C16 as amended: the tag index is found exactly when the argument is a
\* record, the namespace is not empty and a field of the record carries a
\* tag of that namespace; the name index is found exactly when the
\* argument is a record with a field.
FoundWhenCarried ==
    IndexCalled =>
        (res.v.v.ok <=>
            /\ reflectStruct(arg[1]).st = "ok"
            /\ IF op = "StructTagIndex"
               THEN /\ arg[2].v # ""
                    /\ \E i \in 1..Len(IndexedFields) : HasKey(i)
               ELSE Len(IndexedFields) >= 1)

\* the tag index of a record with fields, none of which carries a tag of
\* the namespace asked for, has been returned
NamespaceNotCarried ==
    /\ op = "StructTagIndex"
    /\ arg[1].t = "sts"
    /\ arg[2].v = "test"
    /\ ~res.v.v.ok

(***************************************************************************)
(* The state machine of the round trip: StructToMap of a record, and then  *)
(* MapToStruct of the map it returned into the zero record of the type,    *)
(* whose result is res2.                                                   *)
(***************************************************************************)
\* the record of type ty with the fields of vals set
RecordWith(ty, vals) ==
    Val(ty, [i \in 1..Len(StructFields(ty)) |->
                IF i \in DOMAIN vals THEN vals[i] ELSE ZeroOf(StructFields(ty)[i].ty)])

\* the positions of the fields of ty of scalar type
ScalarFieldsOf(ty) ==
    {i \in 1..Len(StructFields(ty)) : StructFields(ty)[i].ty \in NumTypes}

\* the records of type ty with one numeric field set to a number of its type
OneFieldSet(ty) ==
    UNION {{RecordWith(ty, [k \in {i} |-> v]) :
               v \in NumValsOf(StructFields(ty)[i].ty)} : i \in ScalarFieldsOf(ty)}

Texts == {Str(<<>>), Key(<<"x">>)}

Floats == {Val("float64", Zero), Val("float64", Num(1, 0, 1, 6))}

\* records of the types of types_test.go, and records with one numeric
\* field set to a number of its type
RecordVals ==
    {RecordWith("sts", <<a, b>>) : a \in Texts, b \in Texts}
    \cup {RecordWith("stkv", <<a, b>>) : a \in Floats, b \in Floats}
    \cup {RecordWith("st", <<a, Val("float64", One), RecordWith("sts", <<b>>), f>>) :
              a \in Floats, b \in Texts,
              f \in {Val("[]any", <<>>), Val("[]any", <<Val("float64", One)>>)}}
    \cup UNION {OneFieldSet(ty) : ty \in {"signed", "unsigned"}}
    \cup {ZeroOf("mixed"), ZeroOf("empty")}

StructInputs == RecordVals \cup {Nil, ZeroTime, Str(<<>>), Val("*int", Nil)}

\* the two ways of matching the keys: by the json tag with no casing
\* transform, and by the field name with the Pascal transform
Matchings == {<<"None", "json">>, <<"Pascal", "">>}

StructToMapCall ==
    /\ Idle
    /\ \E s \in StructInputs : Returns("StructToMap", <<s>>, StructToMap(s))

MapBack ==
    /\ op = "StructToMap"
    /\ res.st = "ok"
    /\ res2.st = "none"
    /\ Len(arg) = 1
    /\ \E mt \in Matchings :
           \E r \in MapToStruct(res.v, ZeroOf(arg[1].t), mt[1], mt[2]) :
               /\ res2' = r
               /\ arg' = <<arg[1], FormatArg(mt[1]), TagArg(mt[2])>>
    /\ UNCHANGED <<op, res, pc, cur, depth, class, log>>

NextRound ==
    \/ StructToMapCall
    \/ MapBack

SpecRound == Init /\ [][NextRound]_vars

(***************************************************************************)
(* Properties of the round trip, checked under SpecRound.                  *)
(***************************************************************************)
\* the map came back into a record
CameBack == op = "StructToMap" /\ res2.st # "none"

\* C13: StructToMap of a record whose fields carry json tags, and then
\* MapToStruct of the map into the zero record of its type, by the json tag
\* with no casing transform or by the field name with the Pascal transform,
\* returns a record equal to the first.
RoundTrip ==
    (CameBack /\ arg[1].t \in {"st", "sts", "stkv", "signed", "unsigned"}) =>
        res2 = Ok(arg[1])

(***************************************************************************)
(* KeyValArraysToMap and KeyValPairsToMap (types.go, 1524-1575, and        *)
(* validMapKeyType, 1622-1628).  A sequence is Val(type, <<elements>>).    *)
(***************************************************************************)
validMapKeyType(t) == t \in {"string", "int", "uint", "float", "time"}

NoMap == Val("map[any]any", EmptyMap)

\* the loop of KeyValArraysToMap from position i on, m the map so far
RECURSIVE KeyValArraysFrom(_, _, _, _)
KeyValArraysFrom(kv, vv, i, m) ==
    IF i > Len(kv) THEN Ok(Val("map[any]any", m))
    ELSE LET kt == TypeOf(kv[i])
         IN  IF kt.st = "panic" THEN kt
             ELSE IF ~validMapKeyType(kt.v.v)
             THEN Err(NoMap, "KeyValArraysToMap", "invalid map key type", kv[i])
             ELSE KeyValArraysFrom(kv, vv, i + 1, ValsPut(m, kv[i], vv[i]))

\* !IsArray(k) || !IsArray(v): v is looked at only when k is a sequence
KeyValArraysToMap(k, v) ==
    IF NilKind(k) \/ (IsArray(k) /\ NilKind(v))
    THEN Panic("nil pointer dereference")
    ELSE IF ~IsArray(k) \/ ~IsArray(v)
    THEN Err(NoMap, "KeyValArraysToMap", "an array or slice for k and v", k)
    ELSE IF Len(k.v) # Len(v.v)
    THEN Err(NoMap, "KeyValArraysToMap", "number of elements do not match", k)
    ELSE KeyValArraysFrom(k.v, v.v, 1, EmptyMap)

\* the loop of KeyValPairsToMap from pair i on, kt the Type of the first
\* key and m the map so far
RECURSIVE KeyValPairsFrom(_, _, _, _)
KeyValPairsFrom(p, kt, i, m) ==
    IF i > Len(p) THEN Ok(Val("map[any]any", m))
    ELSE IF p[i].t # "[]any"
    THEN Panic("interface conversion: interface {} is not []interface {}")
    ELSE IF Len(p[i].v) # 2
    THEN Err(NoMap, "KeyValPairsToMap", "2 elements at index", p[i])
    ELSE LET ckt == TypeOf(p[i].v[1])
         IN  IF ckt.st = "panic" THEN ckt
             ELSE IF ckt.v # kt
             THEN Err(NoMap, "KeyValPairsToMap", "inconsistent key type", p[i].v[1])
             ELSE KeyValPairsFrom(p, kt, i + 1, ValsPut(m, p[i].v[1], p[i].v[2]))

\* p.Index(0).Index(0) needs a first element that is itself a sequence,
\* by its static type, and not empty
KeyValPairsToMap(a) ==
    IF NilKind(a) THEN Panic("nil pointer dereference")
    ELSE IF ~IsArray(a) THEN Err(NoMap, "KeyValPairsToMap", "array or slice", a)
    ELSE IF Len(a.v) = 0 THEN Ok(NoMap)
    ELSE IF a.t # "[][]any"
    THEN Panic("reflect: call of reflect.Value.Index on interface Value")
    ELSE IF Len(a.v[1].v) = 0
    THEN Panic("reflect: slice index out of range")
    ELSE LET kt == TypeOf(a.v[1].v[1])
         IN  IF kt.st = "panic" THEN kt
             ELSE IF ~validMapKeyType(kt.v.v)
             THEN Err(NoMap, "KeyValPairsToMap", "invalid key type", a.v[1].v[1])
             ELSE KeyValPairsFrom(a.v, kt.v, 1, EmptyMap)

(***************************************************************************)
(* JsonToMap and JsonToStruct (types.go, 1605-1620 and 1987-2001), with    *)
(* MapToMap (1493-1509).  A JSON text is the document it spells: an        *)
(* object, an array, the literal null, or a text that is no JSON at all.   *)
(* A JSON value is a number, a string, null or an object.                  *)
(***************************************************************************)
JVal(j, v) == [t |-> j, v |-> v]

JNull == JVal("null", 0)

\* the bytes of a document: of an object with the members m, or of a text
\* of another kind
Bytes(kind, m) == Val("[]byte", [kind |-> kind, m |-> m])

\* the value json.Unmarshal stores for a JSON value in an any
RECURSIVE Decode(_)
Decode(x) ==
    CASE x.t = "number" -> Val("float64", x.v)
      [] x.t = "string" -> Str(x.v)
      [] x.t = "object" ->
           Val("map[string]any", [k \in DOMAIN x.v |-> Decode(x.v[k])])
      [] OTHER          -> Nil

\* json.Unmarshal(jsn, &m) with m an empty map[string]any: the map after
\* the call, and whether an error was returned.  A text that fails leaves
\* the map as it was; null makes it the nil map, which has no entries.
Unmarshal(doc) ==
    IF doc.kind = "object"
    THEN [m |-> [k \in DOMAIN doc.m |-> Decode(doc.m[k])], err |-> FALSE]
    ELSE [m |-> EmptyMap, err |-> doc.kind # "null"]

\* reflect.TypeOf(value).Kind() panics at a nil value; the error of the
\* nested call is dropped
RECURSIVE MapToMap(_)
MapToMap(a) ==
    IF NilKind(a) THEN Panic("nil pointer dereference")
    ELSE IF ~IsMap(a) THEN Err(NoMap, "MapToMap", "map", a)
    ELSE LET sub == [k \in DOMAIN a.v |->
                        IF NilKind(a.v[k]) THEN Panic("nil pointer dereference")
                        ELSE IF IsMap(a.v[k]) THEN MapToMap(a.v[k])
                        ELSE Ok(a.v[k])]
         IN  IF \E k \in DOMAIN a.v : sub[k].st = "panic"
             THEN Panic("nil pointer dereference")
             ELSE Ok(Val("map[any]any", [k \in DOMAIN a.v |-> sub[k].v]))

\* the error of json.Unmarshal is built and not returned
JsonToMap(j) ==
    IF j.t # "[]byte" THEN Err(NoMap, "JsonToMap", "json bytes", j)
    ELSE LET ma == MapToMap(Val("map[string]any", Unmarshal(j.v).m))
         IN  IF ma.st = "panic" THEN ma ELSE Ok(ma.v)

\* the set of the possible results of JsonToStruct
JsonToStruct(j, s, f, t) ==
    LET m == JsonToMap(j)
    IN  IF m.st = "panic" THEN {m}
        ELSE IF m.st = "err"
        THEN {Err(Nil, "JsonToStruct", "json formatted []byte", j)}
        ELSE IF ~NilKind(s) THEN MapToStruct(m.v, s, f, t)
        ELSE MapToReflectStruct(m.v, t)

(***************************************************************************)
(* The state machine of the operations that build a map: one call of       *)
(* KeyValArraysToMap, KeyValPairsToMap, JsonToMap or JsonToStruct.         *)
(***************************************************************************)
\* the longest sequence of keys, of values and of pairs
MaxPairs == 2

SeqsOf(S, n) == UNION {[1..k -> S] : k \in 0..n}

PairKeys ==
    {Key(<<"x">>), Key(<<"y">>), Val("int", One), Val("uint", One),
     Val("float64", One), ZeroTime, Val("bool", TRUE), Nil}

PairVals == {Key(<<"x">>), Val("float64", One), Nil}

KeyArrays ==
    {Val("[]any", q) : q \in SeqsOf(PairKeys, MaxPairs)} \cup {Nil, Str(<<>>)}

ValArrays ==
    {Val("[]any", q) : q \in SeqsOf(PairVals, MaxPairs)} \cup {Nil, Str(<<>>)}

\* the pairs: of a key and a value, and of no, one and three elements
Pairs ==
    {Val("[]any", <<k, v>>) : k \in PairKeys, v \in {Key(<<"x">>), Val("float64", One)}}
    \cup {Val("[]any", <<>>), Val("[]any", <<Key(<<"x">>)>>),
          Val("[]any", <<Key(<<"x">>), Key(<<"x">>), Key(<<"x">>)>>)}

PairArrays ==
    {Val("[][]any", q) : q \in SeqsOf(Pairs, MaxPairs)}
    \cup {Val("[]any", <<>>), Val("[]any", <<Val("[]any", <<Key(<<"x">>), Key(<<"x">>)>>)>>),
          Val("[]any", <<Key(<<"x">>)>>), Nil, Str(<<>>)}

KeyValArraysToMapCall ==
    /\ Idle
    /\ \E k \in KeyArrays, v \in ValArrays :
           Returns("KeyValArraysToMap", <<k, v>>, KeyValArraysToMap(k, v))

KeyValPairsToMapCall ==
    /\ Idle
    /\ \E a \in PairArrays : Returns("KeyValPairsToMap", <<a>>, KeyValPairsToMap(a))

\* the JSON values of a member, and the objects of at most two members
JsonValues ==
    {JVal("number", One), JVal("string", <<Ch("x")>>), JNull,
     JVal("object", [k \in {Key(<<"a">>)} |-> JVal("string", <<Ch("x")>>)])}

JsonObjects ==
    UNION {[Ks -> JsonValues] : Ks \in SUBSET {Key(<<"a">>), Key(<<"b">>)}}

\* the arguments given as JSON: the bytes of an object, of an array, of
\* null and of a text that is no JSON, and values that are no bytes
JsonInputs ==
    {Bytes("object", m) : m \in JsonObjects}
    \cup {Bytes(kind, EmptyMap) : kind \in {"array", "null", "malformed"}}
    \cup {Nil, Str(<<>>), NoMap}

JsonToMapCall ==
    /\ Idle
    /\ \E j \in JsonInputs : Returns("JsonToMap", <<j>>, JsonToMap(j))

JsonToStructCall ==
    /\ Idle
    /\ \E j \in JsonInputs, s \in {ZeroOf("sts"), ZeroOf("mixed"), Nil},
          f \in {"None", "Pascal"}, t \in Tags :
           \E r \in JsonToStruct(j, s, f, t) :
               Returns("JsonToStruct", <<j, s, FormatArg(f), TagArg(t)>>, r)

NextToMap ==
    \/ KeyValArraysToMapCall
    \/ KeyValPairsToMapCall
    \/ JsonToMapCall
    \/ JsonToStructCall

SpecToMap == Init /\ [][NextToMap]_vars

(***************************************************************************)
(* Properties of the operations that build a map, checked under SpecToMap. *)
(***************************************************************************)
\* the Go types whose kind may be the key of a map
KeyTypes == {"string", "time.Time"} \cup IntTypes \cup UintTypes \cup FloatTypes

\* the last position of the key k in the sequence q
LastOf(q, k) == CHOOSE i \in 1..Len(q) : q[i] = k /\ \A j \in (i + 1)..Len(q) : q[j] # k

SequencesGiven == op = "KeyValArraysToMap" /\ IsArray(arg[1]) /\ IsArray(arg[2])

\* C17: KeyValArraysToMap of two sequences succeeds exactly when they have
\* the same length and the kind of every key is one of string, int, uint,
\* float and time; on success the map holds for each key the value at the
\* same position, the last one when the key repeats; on failure the map
\* returned is empty.
ArraysToMapExact ==
    SequencesGiven =>
        LET keys == arg[1].v
            vals == arg[2].v
        IN  /\ res.st = "ok" <=>
                   /\ Len(keys) = Len(vals)
                   /\ \A i \in 1..Len(keys) : keys[i].t \in KeyTypes
            /\ res.st = "ok" =>
                   /\ DOMAIN res.v.v = {keys[i] : i \in 1..Len(keys)}
                   /\ \A k \in DOMAIN res.v.v : res.v.v[k] = vals[LastOf(keys, k)]
            /\ res.st # "ok" => res.st = "err" /\ res.v = NoMap

\* the kind of a key, by its Go type
KeyKind(a) ==
    IF a.t \in IntTypes THEN "int"
    ELSE IF a.t \in UintTypes THEN "uint"
    ELSE IF a.t \in FloatTypes THEN "float"
    ELSE a.t

\* KeyValPairsToMap was called with a sequence of sequences, each with a
\* first element
PairsGiven ==
    /\ op = "KeyValPairsToMap"
    /\ arg[1].t = "[][]any"
    /\ \A i \in 1..Len(arg[1].v) : Len(arg[1].v[i].v) >= 1

\* the keys of the pairs, in their order
PairKeysGiven == [i \in 1..Len(arg[1].v) |-> arg[1].v[i].v[1]]

\* C18: KeyValPairsToMap fails, and returns an empty map, whenever the
\* kind of the key of a pair differs from the kind of the key of the first
\* pair, wherever the pair stands; when every pair has two elements and
\* the keys are of one valid kind, it returns the map of the first
\* elements to the second ones.
PairsToMapExact ==
    PairsGiven =>
        LET p    == arg[1].v
            keys == PairKeysGiven
        IN  /\ (\E i \in 1..Len(p) : KeyKind(keys[i]) # KeyKind(keys[1]))
                   => res.st = "err" /\ res.v = NoMap
            /\ (\A i \in 1..Len(p) : /\ Len(p[i].v) = 2
                                      /\ KeyKind(keys[i]) = KeyKind(keys[1])
                                      /\ keys[i].t \in KeyTypes)
                   => /\ res.st = "ok"
                      /\ DOMAIN res.v.v = {keys[i] : i \in 1..Len(p)}
                      /\ \A k \in DOMAIN res.v.v : res.v.v[k] = p[LastOf(keys, k)].v[2]

\* the argument is no byte sequence, or bytes that are no JSON object: an
\* array or a text that is no JSON
NoJsonObject(j) == j.t # "[]byte" \/ j.v.kind \in {"array", "malformed"}

\* C19: JsonToMap returns an error when its argument is not a byte
\* sequence or when the bytes cannot be unmarshalled as a JSON object, and
\* so JsonToStruct fails on such an argument instead of mapping an empty
\* map.
JsonFailureReported ==
    (op \in {"JsonToMap", "JsonToStruct"} /\ NoJsonObject(arg[1])) => res.st = "err"

(***************************************************************************)
(* Class and ClassItem (src/unnamed/part_000, 1779-1929).  A Class is the  *)
(* record of its fields Name, List, Items and inst; a ClassItem the record *)
(* of Name, Type, Value, set and Class, the last one TRUE when the pointer *)
(* to the owning class is set (the field Tag is never read by the methods  *)
(* and is left out).  Type is the name of an abstract Type.  A method of   *)
(* a pointer receiver yields [r |-> its result, c |-> the receiver after   *)
(* the call]: a panic leaves the receiver as the assignments made before   *)
(* it left it.                                                             *)
(***************************************************************************)
Left(r, c) == [c |-> c, r |-> r]

ClassItem(n, ty, v) == [Class |-> FALSE, Name |-> n, Type |-> ty, Value |-> v, set |-> FALSE]

\* the error typeError(fn, ...) gives, returned alone
Failed(fn, k) == Err(Nil, fn, k, Nil)

\* s[:i] followed by s[i+1:], the index i counted from 0
Without(s, i) == SubSeq(s, 1, i) \o SubSeq(s, i + 2, Len(s))

\* the integer a small whole number stands for
IntOf(x) == x.sg * x.d

\* the expressions c.List[:i] and c.List[i+1:] panic unless 0 <= i < len
InBounds(s, x) == x.b = 0 /\ x.f = 0 /\ IntOf(x) >= 0 /\ IntOf(x) < Len(s)

ClassAppend(c, i) ==
    IF ~c.inst
    THEN Left(Failed("Class.Append", "class has not been instantiated"), c)
    ELSE IF i.Name # <<>> /\ i.Type # "invalid"
    THEN Left(Ok(Nil),
              [c EXCEPT !.Items = Append(@, [i EXCEPT !.Class = TRUE,
                                                      !.set = i.set \/ i.Value # Nil]),
                        !.List = Append(@, i.Name)])
    ELSE Left(Failed("Class.Append", "class item missing values"), c)

\* the loop of CreateClass over the items not yet appended
RECURSIVE AppendEach(_, _, _)
AppendEach(c, n, items) ==
    IF items = <<>>
    THEN Left(Ok(Nil), [c EXCEPT !.Name = n, !.inst = TRUE])
    ELSE LET o == ClassAppend(c, Head(items))
         IN  IF o.r.st # "ok"
             THEN Left(Failed("CreateClass", "class item missing values"), ZeroClass)
             ELSE AppendEach(o.c, n, Tail(items))

\* CreateClass(n, i): c of the result is the class the returned pointer
\* refers to
CreateClass(n, i) ==
    IF n = <<>> THEN Left(Failed("CreateClass", "missing class name"), ZeroClass)
    ELSE IF i = <<>> THEN Left(Failed("CreateClass", "missing class items"), ZeroClass)
    ELSE AppendEach(ZeroClass, n, i)

\* Class.IndexOf(n): [i |-> index from 0, ok |-> found]
ClassIndexOf(c, n) ==
    IF c.inst /\ \E j \in 1..Len(c.List) : c.List[j] = n
    THEN [i |-> (CHOOSE j \in 1..Len(c.List) :
                     /\ c.List[j] = n
                     /\ \A k \in 1..(j - 1) : c.List[k] # n) - 1,
          ok |-> TRUE]
    ELSE [i |-> 0, ok |-> FALSE]

\* the two assignments of Class.Remove for the index x: List first, then
\* Items
RemoveAt(c, x) ==
    IF ~InBounds(c.List, x)
    THEN Left(Panic("slice bounds out of range"), c)
    ELSE LET c1 == [c EXCEPT !.List = Without(@, IntOf(x))]
         IN  IF ~InBounds(c.Items, x)
             THEN Left(Panic("slice bounds out of range"), c1)
             ELSE Left(Ok(Nil), [c1 EXCEPT !.Items = Without(@, IntOf(x))])

\* Class.Remove(i)
ClassRemove(c, i) ==
    LET ty == TypeOf(i)
    IN  IF ty.st = "panic" THEN Left(ty, c)
        ELSE IF ty.v.v = "string" /\ ClassIndexOf(c, i.v).ok
        THEN RemoveAt(c, Num(1, 0, ClassIndexOf(c, i.v).i, 0))
        ELSE IF ty.v.v = "int"
        THEN IF i.t # "int"
             THEN Left(Panic("interface conversion"), c)
             ELSE RemoveAt(c, i.v)
        ELSE Left(Failed("Class.Remove", "expected string or int type"), c)

\* ClassItem.Set(v) on the item i: [r |-> result, i |-> the item after it].
\* The error of a value of another kind is built and dropped.
ClassItemSet(i, v) ==
    IF TypeOf(v).st = "panic" THEN [i |-> i, r |-> TypeOf(v)]
    ELSE [i |-> [i EXCEPT !.Value = v, !.set = TRUE], r |-> Ok(Nil)]

(***************************************************************************)
(* The state machine of a Class: a client obtains a class from CreateClass *)
(* or writes one as a composite literal of the exported fields Name, List  *)
(* and Items (inst, not exported, is false in it), and then calls Append   *)
(* and Remove on it and Set on its items, in any order.  The class a       *)
(* failed CreateClass returns is the zero Class.  The call of a method     *)
(* is recorded with the class as it was before the call as its first      *)
(* argument; Set is called on the item class.Items[k], k its second one.   *)
(***************************************************************************)
\* the largest number of items of a class
MaxItems == 2

ItemNames == {<<>>, Chars(<<"a">>), Chars(<<"b">>)}

ItemTypes == {"int", "string", "invalid"}

ItemValues == {Nil, Val("int", One)}

NewItems == {ClassItem(n, ty, v) : n \in ItemNames, ty \in ItemTypes, v \in ItemValues}

\* the items of a literal: named, of a valid Type, and holding nothing or
\* a value of that Type
LiteralItems ==
    {i \in NewItems : /\ i.Name # <<>>
                      /\ i.Type # "invalid"
                      /\ i.Value = Nil \/ TypeOf(i.Value).v.v = i.Type}

ItemLists == UNION {[1..n -> LiteralItems] : n \in 0..MaxItems}

ClassNames == {<<>>, Chars(<<"c">>)}

\* what Remove is called with: indices in and out of range, of type int
\* and of another integer type, names, a float and nil
RemoveArgs ==
    {Val("int", x) : x \in {Neg(One), Zero, One, Num(1, 0, MaxItems, 0), Num(1, 31, 0, 0)}}
        \cup {Val("int8", Zero), Val("float64", Zero), Nil}
        \cup {Val("string", n) : n \in ItemNames}

SetValues == {Nil, Val("int", Zero), Val("int", One), Key(<<"x">>), Val("bool", TRUE)}

\* the receiver of a method as the first argument of its call
Receiver == Val("*Class", class)

ClassReturns(fn, args, r, c) ==
    /\ op' = fn
    /\ arg' = args
    /\ res' = r
    /\ class' = c
    /\ UNCHANGED <<res2, pc, cur, depth, log>>

CreateClassCall ==
    /\ Idle
    /\ \E n \in ClassNames, i \in UNION {[1..k -> NewItems] : k \in 0..MaxItems} :
        LET o == CreateClass(n, i)
        IN  ClassReturns("CreateClass", <<Val("string", n), Val("[]ClassItem", i)>>,
                         o.r, o.c)

ClassLiteral ==
    /\ Idle
    /\ \E n \in ClassNames, i \in ItemLists :
        ClassReturns("Class{}", <<Val("string", n), Val("[]ClassItem", i)>>, NoRes,
                     [Name |-> n, List |-> [k \in 1..Len(i) |-> i[k].Name],
                      Items |-> i, inst |-> FALSE])

ClassAppendCall ==
    /\ ~Idle
    /\ Len(class.Items) < MaxItems
    /\ \E i \in NewItems :
        LET o == ClassAppend(class, i)
        IN  ClassReturns("Class.Append", <<Receiver, Val("ClassItem", i)>>, o.r, o.c)

ClassRemoveCall ==
    /\ ~Idle
    /\ \E i \in RemoveArgs :
        LET o == ClassRemove(class, i)
        IN  ClassReturns("Class.Remove", <<Receiver, i>>, o.r, o.c)

ClassItemSetCall ==
    /\ ~Idle
    /\ \E k \in 1..Len(class.Items), v \in SetValues :
        LET o == ClassItemSet(class.Items[k], v)
        IN  ClassReturns("ClassItem.Set", <<Receiver, Val("int", Num(1, 0, k - 1, 0)), v>>,
                         o.r, [class EXCEPT !.Items[k] = o.i])

NextClass ==
    \/ CreateClassCall
    \/ ClassLiteral
    \/ ClassAppendCall
    \/ ClassRemoveCall
    \/ ClassItemSetCall

SpecClass == Init /\ [][NextClass]_vars

(***************************************************************************)
(* Properties of the lookup of a field by its tag, checked under SpecMap.  *)
(***************************************************************************)
\* the positions, from 1, of the fields of the record given that carry
\* the tag value given under the namespace given
CarryingFields ==
    LET fs == StructFields(arg[1].t)
    IN  {i \in 1..Len(fs) : /\ arg[2].v \in DOMAIN fs[i].tag
                            /\ fs[i].tag[arg[2].v] = arg[3].v}

FirstCarrying == CHOOSE i \in CarryingFields : \A j \in CarryingFields : i <= j

\* C28: StructFieldNumByTag(s, t, v) returns the position of the first
\* field of the record s whose tag t has the value v together with
\* ok = true, and returns ok = false without aborting when no field
\* carries that tag value; StructFieldByTag returns the descriptor of that
\* field under the same conditions.
FieldFoundByTag ==
    (op \in {"StructFieldNumByTag", "StructFieldByTag"}) =>
        /\ res.st = "ok"
        /\ res.v.v.ok = (CarryingFields # {})
        /\ CarryingFields # {} =>
               res.v.v.field =
                   IF op = "StructFieldNumByTag"
                   THEN Val("int", Num(1, 0, FirstCarrying - 1, 0))
                   ELSE Val("reflect.StructField", StructFields(arg[1].t)[FirstCarrying])

(***************************************************************************)
(* Properties of Class and ClassItem, checked under SpecClass.             *)
(***************************************************************************)
\* a non-empty list of items that each have a name and a valid Type
ValidItems(i) ==
    /\ i # <<>>
    /\ \A k \in 1..Len(i) : i[k].Name # <<>> /\ i[k].Type # "invalid"

\* C24: CreateClass(n, items) with a non-empty name and a non-empty list
\* of items that each have a non-empty name and a valid kind returns
\* without error a class for which IsInst is true, whose Name is n and
\* whose List and Items hold the given items in the given order.
CreateClassInstantiates ==
    (op = "CreateClass" /\ arg[1].v # <<>> /\ ValidItems(arg[2].v)) =>
        LET i == arg[2].v
        IN  /\ res.st = "ok"
            /\ class.inst
            /\ class.Name = arg[1].v
            /\ class.List = [k \in 1..Len(i) |-> i[k].Name]
            /\ Len(class.Items) = Len(i)
            /\ \A k \in 1..Len(i) : /\ class.Items[k].Name = i[k].Name
                                    /\ class.Items[k].Type = i[k].Type
                                    /\ class.Items[k].Value = i[k].Value

\* a method was called on a class that is not instantiated
OnUninstantiated(fn) == op = fn /\ ~arg[1].v.inst

\* C25: a Class that is not instantiated rejects every mutating
\* operation: Append, Remove (by index or by name) and Set on one of its
\* items each return an error and leave the List and the Items of the
\* class, and with them the Value of the item, unchanged.
UninstantiatedRejects ==
    (\E fn \in {"Class.Append", "Class.Remove", "ClassItem.Set"} : OnUninstantiated(fn))
        => res.st = "err" /\ class = arg[1].v

\* the item Set was called on, before and after the call
ItemBefore == arg[1].v.Items[IntOf(arg[2].v) + 1]
ItemAfter  == class.Items[IntOf(arg[2].v) + 1]

\* the value has the abstract Type ty
HasType(v, ty) == TypeOf(v).st = "ok" /\ TypeOf(v).v.v = ty

\* C26: ClassItem.Set(v) returns an error and leaves the Value and the set
\* flag of the item unchanged when the abstract kind of v differs from the
\* declared Type of the item; so after any sequence of Set calls the Value
\* of a set item has the declared kind of the item.
SetKeepsDeclaredType ==
    /\ (/\ op = "ClassItem.Set"
        /\ TypeOf(arg[3]).st = "ok"
        /\ ~HasType(arg[3], ItemBefore.Type))
           => /\ res.st = "err"
              /\ ItemAfter.Value = ItemBefore.Value
              /\ ItemAfter.set = ItemBefore.set
    /\ \A k \in 1..Len(class.Items) :
           class.Items[k].set => HasType(class.Items[k].Value, class.Items[k].Type)

\* the position, from 1, of the item of c that i designates: the index i
\* when it is an int from 0 to below the number of items, the first entry
\* of List that is the name i; 0 when i designates no item
Designated(c, i) ==
    IF i.t = "int"
    THEN IF InBounds(c.Items, i.v) THEN IntOf(i.v) + 1 ELSE 0
    ELSE IF \E j \in 1..Len(c.List) : c.List[j] = i.v
    THEN CHOOSE j \in 1..Len(c.List) :
             c.List[j] = i.v /\ \A k \in 1..(j - 1) : c.List[k] # i.v
    ELSE 0

\* C27: Class.Remove(i) returns an error and leaves the class unchanged
\* when i does not designate an existing item, being an integer index that
\* is negative or not smaller than the number of items, or a name that is
\* not in List; when i designates an existing item exactly that item is
\* removed from both List and Items and the order of the others is kept.
RemoveExact ==
    (op = "Class.Remove" /\ arg[2].t \in {"int", "string"}) =>
        LET c == arg[1].v
            d == Designated(c, arg[2])
        IN  IF d = 0
            THEN res.st = "err" /\ class = c
            ELSE /\ res.st = "ok"
                 /\ class = [c EXCEPT !.List = Without(@, d - 1),
                                      !.Items = Without(@, d - 1)]

(***************************************************************************)
(* The logger (src/types/array/array.go, package log, 395-851).  Its       *)
(* configuration is the record of the package variables, a string of Go    *)
(* written as a string, the writer by a name ("nil" for the nil writer).   *)
(* A function of the package yields [r |-> its result, c |-> the           *)
(* configuration it leaves].  What activation takes from outside the       *)
(* program is its environment e: the session id it generates, the          *)
(* variables HOST, SERVICE and GO_UTILS_LOG_PATH ("" when not set) and     *)
(* whether the file system lets the directory and the file be made.        *)
(***************************************************************************)
\* the elements of a record, in the order of their constants: those below
\* len(elNames), and the two that choose the layout
Elements ==
    <<"LogLevel", "LogDateTime", "LogFullSource", "LogSource", "LogSession",
      "LogHost", "LogService", "LogMessage">>

IsElement(i) == \E k \in 1..Len(Elements) : Elements[k] = i

\* the loop of SetFormat: ft the elements kept so far, j the layout
RECURSIVE SetFormatFrom(_, _, _)
SetFormatFrom(f, ft, j) ==
    IF f = <<>> THEN [ft |-> ft, json |-> j]
    ELSE IF IsElement(Head(f)) THEN SetFormatFrom(Tail(f), Append(ft, Head(f)), j)
    ELSE IF Head(f) = "LogJsonFmt" THEN SetFormatFrom(Tail(f), ft, TRUE)
    ELSE IF Head(f) = "LogStdFmt" THEN SetFormatFrom(Tail(f), ft, FALSE)
    ELSE SetFormatFrom(Tail(f), ft, j)

\* SetFormat(f...): the one setter that does not read __ACTIVE__
SetFormat(c, f) ==
    LET x == SetFormatFrom(f, <<>>, c.json)
    IN  Left(Ok(Nil), [c EXCEPT !.json = x.json,
                                !.format = IF x.ft # <<>> THEN x.ft ELSE @])

\* the layouts time.Parse(f, f) accepts
ValidLayouts == {"20060102 150405"}

SetDateTimeFormat(c, f) ==
    IF c.active THEN Left(Ok(Nil), c)
    ELSE IF f \notin ValidLayouts
    THEN Left(Panic("could not set log datetime format: invalid format"), c)
    ELSE Left(Ok(Nil), [c EXCEPT !.timefmt = f])

\* a setter that assigns its argument to one variable unless __ACTIVE__
SetUnlessActive(c, k, v) ==
    IF c.active THEN Left(Ok(Nil), c) ELSE Left(Ok(Nil), [c EXCEPT ![k] = v])

SetDelim(c, d) == SetUnlessActive(c, "delim", d)

LogToConsole(c, b) == SetUnlessActive(c, "console", b)

\* SetDir(d): exists says whether os.Stat finds the directory
SetDir(c, d, exists) ==
    IF c.active THEN Left(Ok(Nil), c)
    ELSE IF ~exists THEN Left(Panic("could not set custom log dir"), c)
    ELSE Left(Ok(Nil), [c EXCEPT !.dir = d])

SetFile(c, f) == SetUnlessActive(c, "file", f)

SetWriter(c, w) == SetUnlessActive(c, "writer", w)

SetHost(c, h) == SetUnlessActive(c, "host", h)

SetService(c, sv) == SetUnlessActive(c, "service", sv)

\* initWriter()
initWriter(c, e) ==
    LET c1 == IF c.dir = ""
              THEN [c EXCEPT !.dir = IF e.dir # "" THEN e.dir ELSE "../logs"]
              ELSE c
        c2 == IF c1.file = "" THEN [c1 EXCEPT !.file = c1.session \o ".log"] ELSE c1
    IN  IF e.fs = "no directory"
        THEN Left(Panic("could not initialize log directory"), c1)
        ELSE IF e.fs = "no file"
        THEN Left(Panic("could not initatiate log file"), c2)
        ELSE Left(Ok(Nil),
                  [c2 EXCEPT !.writer = IF c2.console THEN "stdout and file" ELSE "file"])

\* activate()
activate(c, e) ==
    LET c1 == IF c.session = "" THEN [c EXCEPT !.session = e.session] ELSE c
        c2 == IF c1.host = "" /\ e.host # "" THEN [c1 EXCEPT !.host = e.host] ELSE c1
        c3 == IF c2.service = "" /\ e.service # ""
              THEN [c2 EXCEPT !.service = e.service]
              ELSE c2
        w  == IF c3.writer = "nil" THEN initWriter(c3, e) ELSE Left(Ok(Nil), c3)
    IN  IF w.r.st = "panic" THEN w
        ELSE Left(Ok(Nil), [w.c EXCEPT !.active = TRUE])

Levels == {"TRACE", "INFO", "WARNING", "ERROR", "FATAL"}

\* Log(l, msg): levelNames[l] panics for an l that is no level
Log(c, l, e) ==
    LET a == IF ~c.active THEN activate(c, e) ELSE Left(Ok(Nil), c)
    IN  IF a.r.st = "panic" THEN a
        ELSE IF l \notin Levels THEN Left(Panic("index out of range"), a.c)
        ELSE Left(Ok(Nil), a.c)

(***************************************************************************)
(* The state machine of the logger: the setters and Log, called in any     *)
(* order while no other call is running.                                   *)
(***************************************************************************)
Text(x) == Val("text", x)

Hosts == {"h"}

Services == {"sv"}

Dirs == {"d"}

Files == {"/f"}

Writers == {"buffer"}

Delims == {"|"}

Layouts == ValidLayouts \cup {"Z07:00"}

RecordFormats == {<<"LogJsonFmt">>, <<"LogStdFmt", "LogHost", "LogMessage">>}

Environments ==
    [session : {"s1"}, host : {"", "eh"}, service : {""}, dir : {""},
     fs : {"ok", "no directory", "no file"}]

LogReturns(fn, args, o) ==
    /\ op' = fn
    /\ arg' = args
    /\ res' = o.r
    /\ log' = o.c
    /\ UNCHANGED <<res2, pc, cur, depth, class>>

SetFormatCall ==
    /\ pc = "idle"
    /\ \E f \in RecordFormats : LogReturns("SetFormat", <<Text(f)>>, SetFormat(log, f))

SetDateTimeFormatCall ==
    /\ pc = "idle"
    /\ \E f \in Layouts :
           LogReturns("SetDateTimeFormat", <<Text(f)>>, SetDateTimeFormat(log, f))

SetDelimCall ==
    /\ pc = "idle"
    /\ \E d \in Delims : LogReturns("SetDelim", <<Text(d)>>, SetDelim(log, d))

LogToConsoleCall ==
    /\ pc = "idle"
    /\ \E b \in BOOLEAN : LogReturns("LogToConsole", <<Bool(b)>>, LogToConsole(log, b))

SetDirCall ==
    /\ pc = "idle"
    /\ \E d \in Dirs, exists \in BOOLEAN :
           LogReturns("SetDir", <<Text(d)>>, SetDir(log, d, exists))

SetFileCall ==
    /\ pc = "idle"
    /\ \E f \in Files : LogReturns("SetFile", <<Text(f)>>, SetFile(log, f))

SetWriterCall ==
    /\ pc = "idle"
    /\ \E w \in Writers : LogReturns("SetWriter", <<Text(w)>>, SetWriter(log, w))

SetHostCall ==
    /\ pc = "idle"
    /\ \E h \in Hosts : LogReturns("SetHost", <<Text(h)>>, SetHost(log, h))

SetServiceCall ==
    /\ pc = "idle"
    /\ \E sv \in Services : LogReturns("SetService", <<Text(sv)>>, SetService(log, sv))

LogCall ==
    /\ pc = "idle"
    /\ \E l \in {"INFO", "Level(5)"}, e \in Environments :
           LogReturns("Log", <<Text(l)>>, Log(log, l, e))

NextLog ==
    \/ SetFormatCall
    \/ SetDateTimeFormatCall
    \/ SetDelimCall
    \/ LogToConsoleCall
    \/ SetDirCall
    \/ SetFileCall
    \/ SetWriterCall
    \/ SetHostCall
    \/ SetServiceCall
    \/ LogCall

SpecLog == Init /\ [][NextLog]_vars

(***************************************************************************)
(* Properties of the logger, checked under SpecLog.                        *)
(***************************************************************************)
\* the variables a client configures before the first record, or
\* activation fills in, and the value each has while it is not configured
Configured == {"session", "host", "service", "writer", "dir", "file"}

Unset(k) == IF k = "writer" THEN "nil" ELSE ""

\* C29: the configuration of the logger is locked once logging is active:
\* after the first record has been logged (the active flag is true) no
\* call of SetFormat, SetDateTimeFormat, SetDelim, LogToConsole, SetDir,
\* SetFile, SetWriter, SetHost or SetService changes a configuration
\* value, and activation itself keeps every value that was configured
\* before it (session, host, service, writer, directory, file).
LockedOnceActive ==
    [][/\ log.active => log' = log
       /\ (~log.active /\ log'.active) =>
              \A k \in Configured : log[k] # Unset(k) => log'[k] = log[k]]_vars

====
